---- MODULE Spec2Model ----
(***************************************************************************)
(* A model of FeedbackSummary (source/qualities_summary.py): construction  *)
(* with its two validations, the lazily cached count and merged tables,    *)
(* the three classification views and remove_redundancies.                 *)
(*                                                                         *)
(* A DataFrame is a record [columns, rows]: columns is the sequence of     *)
(* column labels, rows the sequence of rows, each row a function from the  *)
(* column labels to cells.  A cell is a pair <<type, n>>: a string (n = 0  *)
(* is the empty string, larger n are non-empty strings in alphabetical     *)
(* order), an integer, or NaN (the null pandas puts in unmatched joins),   *)
(* or the text of a number that numpy has cast to a string.                *)
(* The tables handed to the constructor hold string cells only and at      *)
(* least one row each.                                                     *)
(*                                                                         *)
(* The module also models the two collaborators of the engine:             *)
(* GoogleSheetsClient (source/google_sheets_client.py), with its           *)
(* constructor, check_keys and the lazily authorized property client, and  *)
(* QualitiesDownloader (source/qualities_downloader.py), with check_keys,  *)
(* the downloads and the two lazily filled caches.  What the libraries and *)
(* the sheets service answer is chosen freely at each call.                *)
(***************************************************************************)
EXTENDS Integers, Sequences, FiniteSets, TLC

\* ---------------------------------------------------------------- bounds
\* longest self-table and others-table of the reconciliation runs
MaxSelfRows == 2
MaxOthersRows == 2
\* longest self-table of the validation runs
MaxValidationRows == 4
\* longest table a caller builds for remove_redundancies
MaxCollapseRows == 2
\* the clients gspread.authorize can hand out
MaxHandles == 2
\* longest worksheet
MaxSheetRows == 1

\* ----------------------------------------------------------------- cells
Str(n) == <<"str", n>>
Num(n) == <<"int", n>>
NaN == <<"nan", 0>>
EmptyStr == Str(0)

\* the text numpy writes for a number that lands in a string array: the
\* digits of an integer ("2"), the decimal form of a float ("2.0"), and
\* "nan" for the null of a float column
Digits(n) == <<"digits", n>>
Decimal(n) == <<"decimal", n>>
NanText == <<"nantext", 0>>

IsNull(v) == v[1] = "nan"
IsStr(v) == v[1] = "str"

\* Series.str.len() on one cell of a string column
StrLen(v) == IF v[2] = 0 THEN 0 ELSE 1

\* astype("int16") on one cell: two's complement wrap to 16 bits
AsInt16(v) == Num((((v[2] + 32768) % 65536) - 32768))

\* ------------------------------------------------- class attributes
my_input_comments == "Comment"
my_final_comments == "My Examples"
others_input_comments == "Examples, so I can understand"
others_final_comments == "Their Examples"
quality_name == "Quality"
count_name == "Others Count"
reviewer_name == "Name"
columns_from_others == <<quality_name, others_input_comments, reviewer_name>>

\* ------------------------------------------------------ sequence helpers
Range(s) == {s[i] : i \in DOMAIN s}

RECURSIVE SortedSeq(_)
\* the cells of a finite set of same-typed cells, ascending
SortedSeq(S) ==
    IF S = {} THEN <<>>
    ELSE LET m == CHOOSE x \in S : \A y \in S : x[2] <= y[2]
         IN <<m>> \o SortedSeq(S \ {m})

RECURSIVE Flatten(_)
Flatten(ss) == IF ss = <<>> THEN <<>> ELSE Head(ss) \o Flatten(Tail(ss))

\* ------------------------------------------------------ DataFrame algebra
HasCol(df, c) == c \in Range(df.columns)

DataFrame(cols, rows) == [columns |-> cols, rows |-> rows]

\* df[cols]: projection to the listed columns, in the listed order
Select(df, cols) ==
    DataFrame(cols,
              [i \in DOMAIN df.rows |-> [c \in Range(cols) |-> df.rows[i][c]]])

RECURSIVE Masked(_, _)
\* the rows whose entry in the boolean mask is true, in order
Masked(rows, mask) ==
    IF rows = <<>> THEN <<>>
    ELSE (IF Head(mask) THEN <<Head(rows)>> ELSE <<>>)
            \o Masked(Tail(rows), Tail(mask))

\* df[mask]: boolean indexing
Filter(df, mask) == DataFrame(df.columns, Masked(df.rows, mask))

\* df.rename(columns={old: new})
Rename(df, old, new) ==
    LET ren(c) == IF c = old THEN new ELSE c
        newcols == [i \in DOMAIN df.columns |-> ren(df.columns[i])]
    IN DataFrame(newcols,
                 [i \in DOMAIN df.rows |->
                    [c \in Range(newcols) |->
                        IF c = new /\ old \in Range(df.columns)
                        THEN df.rows[i][old] ELSE df.rows[i][c]]])

\* fillna that fills nothing
FillNaNothing(df, v) == df

\* df.fillna(v): every null cell becomes v
FillNa(df, v) ==
    DataFrame(df.columns,
              [i \in DOMAIN df.rows |->
                 [c \in Range(df.columns) |->
                    IF IsNull(df.rows[i][c]) THEN v ELSE df.rows[i][c]]])

\* df.astype({col: "int16"})
AsTypeInt16(df, col) ==
    DataFrame(df.columns,
              [i \in DOMAIN df.rows |->
                 [c \in Range(df.columns) |->
                    IF c = col THEN AsInt16(df.rows[i][c]) ELSE df.rows[i][c]]])

\* PivotCount counting only the non-empty strings of the values column
PivotCountNonEmpty(df, values, index) ==
    LET keys == SortedSeq({df.rows[i][index] : i \in DOMAIN df.rows})
        n(k) == Cardinality({i \in DOMAIN df.rows :
                               /\ df.rows[i][index] = k
                               /\ ~IsNull(df.rows[i][values])
                               /\ df.rows[i][values] # EmptyStr})
    IN DataFrame(<<index, values>>,
                 [j \in DOMAIN keys |->
                    (index :> keys[j]) @@ (values :> Num(n(keys[j])))])

\* pd.pivot_table(df, values=[values], index=[index], aggfunc="count")
\*   .reset_index(): one row per distinct index cell, ascending, holding the
\* number of non-null cells of the values column in that group.
PivotCount(df, values, index) ==
    LET keys == SortedSeq({df.rows[i][index] : i \in DOMAIN df.rows})
        n(k) == Cardinality({i \in DOMAIN df.rows :
                               /\ df.rows[i][index] = k
                               /\ ~IsNull(df.rows[i][values])})
    IN DataFrame(<<index, values>>,
                 [j \in DOMAIN keys |->
                    (index :> keys[j]) @@ (values :> Num(n(keys[j])))])

\* a left join that keeps only the first match of each left row
MergeFirstMatch(left, right, on) ==
    LET extra == SelectSeq(right.columns, LAMBDA c : c # on)
        cols == left.columns \o extra
        join(l, r) == [c \in Range(cols) |->
                          IF c \in Range(left.columns) THEN l[c] ELSE r[c]]
        nulls == [c \in Range(extra) |-> NaN]
        one(l) == LET ms == SelectSeq(right.rows, LAMBDA r : r[on] = l[on])
                  IN IF ms = <<>> THEN join(l, nulls) ELSE join(l, ms[1])
    IN DataFrame(cols, [i \in DOMAIN left.rows |-> one(left.rows[i])])

\* an inner join: the left rows that match nothing are dropped
MergeInner(left, right, on) ==
    LET extra == SelectSeq(right.columns, LAMBDA c : c # on)
        cols == left.columns \o extra
        join(l, r) == [c \in Range(cols) |->
                          IF c \in Range(left.columns) THEN l[c] ELSE r[c]]
        fan(l) == LET ms == SelectSeq(right.rows, LAMBDA r : r[on] = l[on])
                  IN [k \in DOMAIN ms |-> join(l, ms[k])]
    IN DataFrame(cols, Flatten([i \in DOMAIN left.rows |-> fan(left.rows[i])]))

\* pd.merge(left, right, how="left", on=on): the left rows in order, each
\* paired with its matching right rows in the right table's order, or with
\* nulls when nothing matches.
MergeLeft(left, right, on) ==
    LET extra == SelectSeq(right.columns, LAMBDA c : c # on)
        cols == left.columns \o extra
        join(l, r) == [c \in Range(cols) |->
                          IF c \in Range(left.columns) THEN l[c] ELSE r[c]]
        nulls == [c \in Range(extra) |-> NaN]
        fan(l) == LET ms == SelectSeq(right.rows, LAMBDA r : r[on] = l[on])
                  IN IF ms = <<>> THEN <<join(l, nulls)>>
                     ELSE [k \in DOMAIN ms |-> join(l, ms[k])]
    IN DataFrame(cols, Flatten([i \in DOMAIN left.rows |-> fan(left.rows[i])]))

\* lexicographic "row a sorts strictly before row b" for
\* sort_values(by, ascending)
RECURSIVE Before(_, _, _, _)
Before(a, b, by, ascending) ==
    IF by = <<>> THEN FALSE
    ELSE LET x == a[Head(by)][2]
             y == b[Head(by)][2]
         IN IF x = y THEN Before(a, b, Tail(by), Tail(ascending))
            ELSE IF Head(ascending) THEN x < y ELSE x > y

\* stable insertion of row r into an already sorted sequence: r goes after
\* every row that does not sort strictly after it
RECURSIVE Insert(_, _, _, _)
Insert(r, sorted, by, ascending) ==
    IF sorted = <<>> THEN <<r>>
    ELSE IF Before(r, Head(sorted), by, ascending) THEN <<r>> \o sorted
    ELSE <<Head(sorted)>> \o Insert(r, Tail(sorted), by, ascending)

\* a sort that leaves the rows as they come
SortRowsAsGiven(rows, by, ascending) == rows

RECURSIVE SortRows(_, _, _)
SortRows(rows, by, ascending) ==
    IF rows = <<>> THEN <<>>
    ELSE Insert(rows[Len(rows)],
                SortRows(SubSeq(rows, 1, Len(rows) - 1), by, ascending),
                by, ascending)

\* sort_values that sorts every key ascending
SortValuesAllAscending(df, by, ascending) ==
    DataFrame(df.columns,
              SortRows(df.rows, by, [i \in DOMAIN ascending |-> TRUE]))

\* df.sort_values(by, ascending=ascending): a stable multi-key sort
SortValues(df, by, ascending) ==
    DataFrame(df.columns, SortRows(df.rows, by, ascending))

\* ==, element by element: a null equals nothing, itself included
CellEq(a, b) == ~IsNull(a) /\ ~IsNull(b) /\ a = b

\* the dtype pandas holds a column of these cells in: int for integers
\* only, float64 for numbers with nulls, object otherwise
ColumnKind(df, c) ==
    IF \A i \in DOMAIN df.rows : df.rows[i][c][1] = "int" THEN "int"
    ELSE IF \A i \in DOMAIN df.rows : df.rows[i][c][1] \in {"int", "nan"}
         THEN "float"
         ELSE "object"

\* a cast that leaves every cell as it is
AsTextKeeping(v, kind) == v

\* the cell as numpy casts it when np.where joins the column with "": the
\* cells of a numeric column become their text, those of an object column
\* stay
AsText(v, kind) ==
    CASE kind = "int" -> Digits(v[2])
      [] kind = "float" -> IF IsNull(v) THEN NanText ELSE Decimal(v[2])
      [] OTHER -> v

\* np.where(condition, "", column) over a column of the given dtype
NpWhere(condition, column, kind) ==
    [i \in DOMAIN column |->
        IF condition[i] THEN EmptyStr ELSE AsText(column[i], kind)]

\* --------------------------------------------------------------- inputs
\* qualities and reviewers, in alphabetical order
Qualities == {Str(1), Str(2)}
ValidationQualities == {Str(1), Str(2), Str(3)}
Reviewers == {Str(1), Str(2)}
\* a comment cell is the empty string or some text
Comments == {EmptyStr, Str(1)}

SelfRow(q, c) == (quality_name :> q) @@ (my_input_comments :> c)
OtherRow(q, c, r) ==
    (quality_name :> q) @@ (others_input_comments :> c) @@ (reviewer_name :> r)

\* the non-empty sequences over S of length at most n
SeqsUpTo(S, n) == UNION {[1..k -> S] : k \in 1..n}

SelfFrame(rows) == DataFrame(<<quality_name, my_input_comments>>, rows)
OthersFrame(rows) == DataFrame(columns_from_others, rows)

SelfRows == {SelfRow(q, c) : q \in Qualities, c \in Comments}

SelfTables == {SelfFrame(rows) : rows \in SeqsUpTo(SelfRows, MaxSelfRows)}

OthersTables ==
    {OthersFrame(rows) :
        rows \in SeqsUpTo({OtherRow(q, c, r) :
                             q \in Qualities, c \in Comments, r \in Reviewers},
                          MaxOthersRows)}

\* the validation runs: longer self-tables, against others-tables in which
\* only the quality varies
ValidationSelfTables ==
    {SelfFrame(rows) :
        rows \in SeqsUpTo({SelfRow(q, c) :
                             q \in ValidationQualities, c \in Comments},
                          MaxValidationRows)}

ValidationOthersTables ==
    {OthersFrame(rows) :
        rows \in SeqsUpTo({OtherRow(q, Str(1), Str(1)) :
                             q \in ValidationQualities},
                          MaxOthersRows)}

\* the hierarchy of the tests, one that leaves a computed column out and
\* puts the reviewer before the quality, and one with a label that is no
\* computed column and without the count
Hierarchies ==
    { <<quality_name, count_name, my_final_comments, reviewer_name,
        others_final_comments>>,
      <<reviewer_name, quality_name, count_name, my_final_comments>>,
      <<"Extra", reviewer_name, quality_name>> }

\* the tables of the tests: six qualities, in alphabetical order, a comment
\* text for each row that has one, and the reviewers A and B
AbstractThinker == Str(1)
Ambitious == Str(2)
Analytical == Str(3)
Committed == Str(4)
Independent == Str(5)
Spontaneous == Str(6)

FixtureSelfRows ==
    << SelfRow(AbstractThinker, Str(1)), SelfRow(Analytical, Str(2)),
       SelfRow(Spontaneous, Str(3)), SelfRow(Committed, Str(4)),
       SelfRow(Independent, EmptyStr), SelfRow(Ambitious, EmptyStr) >>

FixtureOthersRows ==
    << OtherRow(AbstractThinker, Str(1), Str(1)),
       OtherRow(AbstractThinker, Str(2), Str(2)),
       OtherRow(Analytical, Str(3), Str(1)),
       OtherRow(Ambitious, Str(4), Str(2)),
       OtherRow(Committed, Str(5), Str(2)),
       OtherRow(Independent, Str(6), Str(1)),
       OtherRow(Independent, Str(7), Str(2)) >>

\* the rows from position k + 1 on, followed by the first k rows
Rotated(rows, k) ==
    [i \in DOMAIN rows |-> rows[((i - 1 + k) % Len(rows)) + 1]]

\* the rows of a fixture table, beginning at any of them
Rotations(rows) == {Rotated(rows, k) : k \in 0..(Len(rows) - 1)}

\* the tables a caller builds for remove_redundancies: the columns of a
\* merged table, with a null count, as the merge has it before fillna, for
\* a quality nobody chose
CollapseRow(q, m, n, r) ==
    (quality_name :> q) @@ (my_final_comments :> m) @@ (count_name :> n)
        @@ (reviewer_name :> r)

CollapseTables ==
    {DataFrame(<<quality_name, my_final_comments, count_name, reviewer_name>>,
               rows) :
        rows \in SeqsUpTo({CollapseRow(q, m, n, r) :
                             q \in Qualities, m \in Comments,
                             n \in {Num(1), NaN}, r \in {EmptyStr, Str(1)}},
                          MaxCollapseRows)}

\* hierarchies over those columns, by quality first and by count first
CollapseHierarchies ==
    { <<quality_name, count_name, my_final_comments, reviewer_name>>,
      <<count_name, quality_name, my_final_comments, reviewer_name>> }

\* ---------------------------------------------------------------- state
\* the engine's attributes; pc, the stage of the engine; ret, what the last
\* call gave back; input_df, the argument of the last remove_redundancies
\* call; table, a table the caller has built to pass to remove_redundancies;
\* computations, how often the count aggregation and the merge have run;
\* logged, the messages the last call of the engine has sent to its logger;
\* sheets_client, a GoogleSheetsClient, and downloader, a QualitiesDownloader:
\* None until constructed, then the attributes of the instance; trace, the
\* calls the last call has made in turn to check_keys and to the libraries
\* and services outside the program, each with what it gave
VARIABLES self_dataframe, others_dataframe, hierarchy,
          _count_dataframe, _merged_dataframe, pc, ret,
          input_df, table, computations, logged,
          sheets_client, downloader, trace

vars == <<self_dataframe, others_dataframe, hierarchy,
          _count_dataframe, _merged_dataframe, pc, ret,
          input_df, table, computations, logged,
          sheets_client, downloader, trace>>

\* the attributes of the engine, which the collaborators never touch, and
\* the collaborators, which the engine never touches
engine == <<self_dataframe, others_dataframe, hierarchy,
            _count_dataframe, _merged_dataframe, pc,
            input_df, table, computations, logged>>
collaborators == <<sheets_client, downloader, trace>>

\* Python's None and a held value
None == <<>>
Some(x) == <<x>>

NoFrame == DataFrame(<<>>, <<>>)
\* what the last call gave back: the operation, the exception it raised (""
\* when it returned), the message of the exception and the table it returned
Outcome(op, raised, text, names, df) ==
    [op |-> op, raised |-> raised, text |-> text, names |-> names, df |-> df]
Returned(op, df) == Outcome(op, "", "", <<>>, df)
Raised(op, exc, text, names) == Outcome(op, exc, text, names, NoFrame)

\* a message of the logger: its wording, the reviewer it is about, as
\* name.title() writes the name, and the numbers it gives; a message about
\* no reviewer has no name
Message(text, name, num, all) ==
    [text |-> text, name |-> name, num |-> num, all |-> all]
Info(text, num) == Message(text, None, num, 0)
Title(name) == <<"title", name[2]>>

\* ------------------------------------------------------------ validation
\* duplicated_qualities with the threshold off by one
duplicated_qualities_from_one(self_df) ==
    LET quality_count == PivotCount(self_df, my_input_comments, quality_name)
        dup == SelectSeq(quality_count.rows,
                         LAMBDA r : r[my_input_comments][2] >= 1)
    IN [i \in DOMAIN dup |-> dup[i][quality_name]]

\* the list duplicated_qualities of check_duplicates_in_self_assessment
duplicated_qualities(self_df) ==
    LET quality_count == PivotCount(self_df, my_input_comments, quality_name)
        dup == SelectSeq(quality_count.rows,
                         LAMBDA r : r[my_input_comments][2] > 1)
    IN [i \in DOMAIN dup |-> dup[i][quality_name]]

\* check_duplicates_in_self_assessment with the plural wording from one on
check_duplicates_always_plural(self_df) ==
    LET d == duplicated_qualities(self_df)
    IN IF Len(d) > 0
       THEN Some(Raised("__init__", "ValueError",
                        IF Len(d) > 0 THEN "There are duplicated entries"
                                      ELSE "There is a duplicated entry",
                        d))
       ELSE None

\* the ValueError of check_duplicates_in_self_assessment, or None
check_duplicates_in_self_assessment(self_df) ==
    LET d == duplicated_qualities(self_df)
    IN IF Len(d) > 0
       THEN Some(Raised("__init__", "ValueError",
                        IF Len(d) > 1 THEN "There are duplicated entries"
                                      ELSE "There is a duplicated entry",
                        d))
       ELSE None

\* missing_qualities without the test against the self-table
missing_qualities_unfiltered(self_df, others_df) ==
    LET others_qualities_count ==
            PivotCount(others_df, reviewer_name, quality_name)
    IN [i \in DOMAIN others_qualities_count.rows |->
           others_qualities_count.rows[i][quality_name]]

\* the list missing_qualities of check_missing_qualities_from_self_assessment
missing_qualities(self_df, others_df) ==
    LET others_qualities_count ==
            PivotCount(others_df, reviewer_name, quality_name)
        own == {self_df.rows[i][quality_name] : i \in DOMAIN self_df.rows}
        mis == SelectSeq(others_qualities_count.rows,
                         LAMBDA r : r[quality_name] \notin own)
    IN [i \in DOMAIN mis |-> mis[i][quality_name]]

\* the ValueError of check_missing_qualities_from_self_assessment, or None
check_missing_qualities_from_self_assessment(self_df, others_df) ==
    LET m == missing_qualities(self_df, others_df)
    IN IF Len(m) > 0
       THEN Some(Raised("__init__", "ValueError",
                        IF Len(m) > 1 THEN "There are qualities missing from"
                                      ELSE "There is a quality missing from",
                        m))
       ELSE None

\* ------------------------------------------------------- derived tables
\* what the count_dataframe property computes when its cache is empty
ComputeCount(others_df) ==
    AsTypeInt16(
        Rename(PivotCount(others_df, others_input_comments, quality_name),
               others_input_comments, count_name),
        count_name)

\* the property count_dataframe: the cached table, computed on first access
count_dataframe ==
    IF _count_dataframe = None THEN ComputeCount(others_dataframe)
    ELSE _count_dataframe[1]

\* the columns _merge_dataframes keeps: those of the merged table, in the
\* merged table's order, that hierarchy lists
KeptColumns(df, hier) == SelectSeq(df.columns, LAMBDA c : c \in Range(hier))

\* _merge_dataframes joining the others-table before the counts are taken as
\* integers of their own: every count is the number of non-empty comments
_merge_dataframes_chosen(self_df, others_df, hier, counts) ==
    LET chosen == AsTypeInt16(
                      Rename(PivotCountNonEmpty(others_df,
                                 others_input_comments, quality_name),
                             others_input_comments, count_name),
                      count_name)
        with_count ==
            Rename(
                AsTypeInt16(
                    FillNa(MergeLeft(self_df, chosen, quality_name), Num(0)),
                    count_name),
                my_input_comments, my_final_comments)
        others == Rename(Select(others_df, columns_from_others),
                         others_input_comments, others_final_comments)
        tobereturned ==
            SortValues(
                FillNa(MergeLeft(with_count, others, quality_name), EmptyStr),
                <<count_name, quality_name, reviewer_name>>,
                <<FALSE, TRUE, TRUE>>)
    IN Select(tobereturned, KeptColumns(tobereturned, hier))

\* _merge_dataframes, given the table the count_dataframe property returns.
\* fillna(0.0) followed by astype int16 leaves the integer 0.
_merge_dataframes(self_df, others_df, hier, counts) ==
    LET with_count ==
            Rename(
                AsTypeInt16(
                    FillNa(MergeLeft(self_df, counts, quality_name), Num(0)),
                    count_name),
                my_input_comments, my_final_comments)
        others == Rename(Select(others_df, columns_from_others),
                         others_input_comments, others_final_comments)
        tobereturned ==
            SortValues(
                FillNa(MergeLeft(with_count, others, quality_name), EmptyStr),
                <<count_name, quality_name, reviewer_name>>,
                <<FALSE, TRUE, TRUE>>)
    IN Select(tobereturned, KeptColumns(tobereturned, hier))

\* the property merged_dataframe
merged_dataframe ==
    IF _merged_dataframe = None
    THEN _merge_dataframes(self_dataframe, others_dataframe, hierarchy,
                           count_dataframe)
    ELSE _merged_dataframe[1]

\* ---------------------------------------------------------------- actions
Init ==
    /\ self_dataframe \in SelfTables
    /\ others_dataframe \in OthersTables
    /\ hierarchy \in Hierarchies
    /\ _count_dataframe = None
    /\ _merged_dataframe = None
    /\ pc = "init"
    /\ ret = Returned("", NoFrame)
    /\ input_df = NoFrame
    /\ table = None
    /\ computations = [count |-> 0, merged |-> 0]
    /\ logged = <<>>
    /\ sheets_client = <<>>
    /\ downloader = <<>>
    /\ trace = <<>>

\* a call other than remove_redundancies: no table is passed
NoArgument == input_df' = NoFrame /\ UNCHANGED table

\* a constructor that looks for missing qualities first
ConstructMissingFirst ==
    /\ pc = "init"
    /\ LET dup == check_duplicates_in_self_assessment(self_dataframe)
           mis == check_missing_qualities_from_self_assessment(
                      self_dataframe, others_dataframe)
       IN IF mis # None THEN pc' = "failed" /\ ret' = mis[1]
          ELSE IF dup # None THEN pc' = "failed" /\ ret' = dup[1]
          ELSE pc' = "ready" /\ ret' = Returned("__init__", NoFrame)
    /\ _count_dataframe' = None
    /\ _merged_dataframe' = None
    /\ logged' = <<>>
    /\ NoArgument
    /\ UNCHANGED collaborators
    /\ UNCHANGED <<self_dataframe, others_dataframe, hierarchy, computations>>

\* a constructor that computes the count table at once
ConstructEager ==
    /\ pc = "init"
    /\ LET dup == check_duplicates_in_self_assessment(self_dataframe)
           mis == check_missing_qualities_from_self_assessment(
                      self_dataframe, others_dataframe)
       IN IF dup # None THEN pc' = "failed" /\ ret' = dup[1]
          ELSE IF mis # None THEN pc' = "failed" /\ ret' = mis[1]
          ELSE pc' = "ready" /\ ret' = Returned("__init__", NoFrame)
    /\ _count_dataframe' = Some(ComputeCount(others_dataframe))
    /\ _merged_dataframe' = None
    /\ logged' = <<>>
    /\ NoArgument
    /\ UNCHANGED collaborators
    /\ UNCHANGED <<self_dataframe, others_dataframe, hierarchy, computations>>

\* FeedbackSummary.__init__: both checks, then the two empty caches
Construct ==
    /\ pc = "init"
    /\ LET dup == check_duplicates_in_self_assessment(self_dataframe)
           mis == check_missing_qualities_from_self_assessment(
                      self_dataframe, others_dataframe)
       IN IF dup # None THEN pc' = "failed" /\ ret' = dup[1]
          ELSE IF mis # None THEN pc' = "failed" /\ ret' = mis[1]
          ELSE pc' = "ready" /\ ret' = Returned("__init__", NoFrame)
    /\ _count_dataframe' = None
    /\ _merged_dataframe' = None
    /\ logged' = <<>>
    /\ NoArgument
    /\ UNCHANGED collaborators
    /\ UNCHANGED <<self_dataframe, others_dataframe, hierarchy, computations>>

\* what a read of the property count_dataframe logs: the aggregation, when
\* it runs
CountLog ==
    IF _count_dataframe = None
    THEN <<Info("Adjectives counted for reviewers", 0)>> ELSE <<>>

\* what a read of the property merged_dataframe logs: the merge reads the
\* property count_dataframe, when it runs
MergeLog == IF _merged_dataframe = None THEN CountLog ELSE <<>>

\* a count_dataframe that aggregates on every read
GetCountDataframeUncached ==
    /\ pc = "ready"
    /\ _count_dataframe' = Some(ComputeCount(others_dataframe))
    /\ computations' = [computations EXCEPT !.count = @ + 1]
    /\ ret' = Returned("count_dataframe", ComputeCount(others_dataframe))
    /\ logged' = <<Info("Adjectives counted for reviewers", 0)>>
    /\ NoArgument
    /\ UNCHANGED collaborators
    /\ UNCHANGED <<self_dataframe, others_dataframe, hierarchy,
                   _merged_dataframe, pc>>

\* reading the property count_dataframe
GetCountDataframe ==
    /\ pc = "ready"
    /\ _count_dataframe' = Some(count_dataframe)
    /\ computations' =
          [computations EXCEPT
              !.count = @ + (IF _count_dataframe = None THEN 1 ELSE 0)]
    /\ ret' = Returned("count_dataframe", count_dataframe)
    /\ logged' = CountLog
    /\ NoArgument
    /\ UNCHANGED collaborators
    /\ UNCHANGED <<self_dataframe, others_dataframe, hierarchy,
                   _merged_dataframe, pc>>

\* a read of the property merged_dataframe fills both caches: the merge reads
\* the property count_dataframe
FillCaches ==
    /\ _merged_dataframe' = Some(merged_dataframe)
    /\ _count_dataframe' =
          IF _merged_dataframe = None THEN Some(count_dataframe)
          ELSE _count_dataframe
    /\ computations' =
          [count |-> computations.count
                       + (IF _merged_dataframe = None /\ _count_dataframe = None
                          THEN 1 ELSE 0),
           merged |-> computations.merged
                       + (IF _merged_dataframe = None THEN 1 ELSE 0)]

\* reading the property merged_dataframe
GetMergedDataframe ==
    /\ pc = "ready"
    /\ FillCaches
    /\ ret' = Returned("merged_dataframe", merged_dataframe)
    /\ logged' = MergeLog
    /\ NoArgument
    /\ UNCHANGED collaborators
    /\ UNCHANGED <<self_dataframe, others_dataframe, hierarchy, pc>>

\* the first label of needed that the table lacks, as df[label] raises KeyError
MissingLabel(df, needed) ==
    LET lacking == SelectSeq(needed, LAMBDA c : ~HasCol(df, c))
    IN IF lacking = <<>> THEN None ELSE Some(lacking[1])

\* the match mask without the test of the count
InMatchAnyCount(r) == StrLen(r[my_final_comments]) > 0

\* the only-me mask with the count test of the match mask
InOnlyMeCounted(r) ==
    r[count_name][2] >= 0 /\ StrLen(r[my_final_comments]) > 0

InMatch(r) == r[count_name][2] > 0 /\ StrLen(r[my_final_comments]) > 0
InOnlyMe(r) == r[count_name][2] = 0 /\ StrLen(r[my_final_comments]) > 0
\* the only-others mask without the test of the self comment
InOnlyOthersAnyComment(r) == r[count_name][2] > 0

InOnlyOthers(r) == r[count_name][2] > 0 /\ StrLen(r[my_final_comments]) = 0

\* the boolean mask a view builds over the merged table
MaskOf(op, df) ==
    [i \in DOMAIN df.rows |->
        CASE op = "match_dataframe" -> InMatch(df.rows[i])
          [] op = "only_me_dataframe" -> InOnlyMe(df.rows[i])
          [] op = "only_others_dataframe" -> InOnlyOthers(df.rows[i])]

\* what a classification view gives back: the rows of the merged table
\* under the view's mask, or the KeyError of the first column it reads that
\* the merged table lacks; needed are the columns the method reads, in order
ViewOutcome(op, needed) ==
    LET merged == merged_dataframe
        lack == MissingLabel(merged, needed)
    IN IF lack # None
       THEN Raised(op, "KeyError", lack[1], <<>>)
       ELSE Returned(op, Filter(merged, MaskOf(op, merged)))

RECURSIVE Unique(_)
\* Series.unique(): the distinct cells, in order of first appearance
Unique(cells) ==
    IF cells = <<>> THEN <<>>
    ELSE LET front == Unique(SubSeq(cells, 1, Len(cells) - 1))
             last == cells[Len(cells)]
         IN IF last \in Range(front) THEN front ELSE Append(front, last)

\* the wording of the messages of a view: its summary, and its message
\* about one reviewer
SummaryText(op) ==
    CASE op = "match_dataframe" -> "matching qualities found"
      [] op = "only_me_dataframe" -> "qualities found, which no one confirmed."
      [] op = "only_others_dataframe" ->
            "missing qualities found among others' feedbacks."
ReviewerText(op) ==
    CASE op = "match_dataframe" -> "matching adjectives with you"
      [] op = "only_others_dataframe" -> "adjectives which you didn't choose."

\* the number of rows of the table with the reviewer
RowsBy(df, name) ==
    Cardinality({i \in DOMAIN df.rows : df.rows[i][reviewer_name] = name})

\* messages about the reviewers that count the rows of the view in both
\* places
ReviewerMessagesOfView(op, view, merged) ==
    LET names == Unique([i \in DOMAIN view.rows |->
                           view.rows[i][reviewer_name]])
    IN [k \in DOMAIN names |->
          Message(ReviewerText(op), Some(Title(names[k])),
                  RowsBy(view, names[k]), RowsBy(view, names[k]))]

\* the messages of the loop over tobereturned[reviewer_name].unique(): for
\* each reviewer of the view, the rows of the view and the rows of the
\* merged table with that reviewer
ReviewerMessages(op, view, merged) ==
    LET names == Unique([i \in DOMAIN view.rows |->
                           view.rows[i][reviewer_name]])
    IN [k \in DOMAIN names |->
          Message(ReviewerText(op), Some(Title(names[k])),
                  RowsBy(view, names[k]), RowsBy(merged, names[k]))]

\* what a classification view logs: what its read of merged_dataframe
\* logs, then the number of distinct qualities of its rows, unless a
\* column read before that is missing, and then, in match_dataframe and
\* only_others_dataframe, the messages about the reviewers, unless the
\* reviewer column is missing
ViewLog(op, needed) ==
    LET merged == merged_dataframe
        lack == MissingLabel(merged, needed)
    IN IF lack # None /\ lack # Some(reviewer_name) THEN MergeLog
       ELSE LET view == Filter(merged, MaskOf(op, merged))
                summary ==
                    Info(SummaryText(op),
                         Cardinality({view.rows[i][quality_name] :
                                        i \in DOMAIN view.rows}))
            IN IF lack # None \/ op = "only_me_dataframe"
               THEN Append(MergeLog, summary)
               ELSE Append(MergeLog, summary)
                       \o ReviewerMessages(op, view, merged)

\* a match_dataframe that keeps its selection in the merged cache
match_dataframe_in_place ==
    /\ pc = "ready"
    /\ LET outcome == ViewOutcome("match_dataframe",
                                  <<count_name, my_final_comments,
                                    quality_name, reviewer_name>>)
       IN /\ ret' = outcome
          /\ logged' =
                ViewLog("match_dataframe",
                        <<count_name, my_final_comments, quality_name,
                          reviewer_name>>)
          /\ _merged_dataframe' =
                Some(IF outcome.raised = "" THEN outcome.df
                     ELSE merged_dataframe)
          /\ _count_dataframe' = Some(count_dataframe)
          /\ computations' = [count |-> 1, merged |-> 1]
    /\ NoArgument
    /\ UNCHANGED collaborators
    /\ UNCHANGED <<self_dataframe, others_dataframe, hierarchy, pc>>

match_dataframe ==
    /\ pc = "ready"
    /\ FillCaches
    /\ ret' = ViewOutcome("match_dataframe",
                          <<count_name, my_final_comments, quality_name,
                            reviewer_name>>)
    /\ logged' = ViewLog("match_dataframe",
                         <<count_name, my_final_comments, quality_name,
                           reviewer_name>>)
    /\ NoArgument
    /\ UNCHANGED collaborators
    /\ UNCHANGED <<self_dataframe, others_dataframe, hierarchy, pc>>

only_me_dataframe ==
    /\ pc = "ready"
    /\ FillCaches
    /\ ret' = ViewOutcome("only_me_dataframe",
                          <<count_name, my_final_comments, quality_name>>)
    /\ logged' = ViewLog("only_me_dataframe",
                         <<count_name, my_final_comments, quality_name>>)
    /\ NoArgument
    /\ UNCHANGED collaborators
    /\ UNCHANGED <<self_dataframe, others_dataframe, hierarchy, pc>>

only_others_dataframe ==
    /\ pc = "ready"
    /\ FillCaches
    /\ ret' = ViewOutcome("only_others_dataframe",
                          <<count_name, my_final_comments, quality_name,
                            reviewer_name>>)
    /\ logged' = ViewLog("only_others_dataframe",
                         <<count_name, my_final_comments, quality_name,
                           reviewer_name>>)
    /\ NoArgument
    /\ UNCHANGED collaborators
    /\ UNCHANGED <<self_dataframe, others_dataframe, hierarchy, pc>>

\* one round of the loop of remove_redundancies that begins on the third row
CollapseColumnFromThirdRow(tobereturned, hier, ind) ==
    LET col == hier[ind]
        rows == tobereturned.rows
        condition ==
            [i \in DOMAIN rows |->
                /\ i > 2
                /\ CellEq(rows[i - 1][col], rows[i][col])
                /\ \A j \in 1..(ind - 1) : CellEq(rows[i][hier[j]], EmptyStr)]
        column ==
            NpWhere(condition, [i \in DOMAIN rows |-> rows[i][col]],
                    ColumnKind(tobereturned, col))
    IN DataFrame(tobereturned.columns,
                 [i \in DOMAIN rows |-> [rows[i] EXCEPT ![col] = column[i]]])

\* one round of the loop of remove_redundancies, for the column at position
\* ind of the hierarchy: the condition compares each row with the row
\* above (shift(1) leaves the first row null) and asks for "" in every
\* hierarchy column before ind, as the earlier rounds have left them
CollapseColumn(tobereturned, hier, ind) ==
    LET col == hier[ind]
        rows == tobereturned.rows
        condition ==
            [i \in DOMAIN rows |->
                /\ i > 1
                /\ CellEq(rows[i - 1][col], rows[i][col])
                /\ \A j \in 1..(ind - 1) : CellEq(rows[i][hier[j]], EmptyStr)]
        column ==
            NpWhere(condition, [i \in DOMAIN rows |-> rows[i][col]],
                    ColumnKind(tobereturned, col))
    IN DataFrame(tobereturned.columns,
                 [i \in DOMAIN rows |-> [rows[i] EXCEPT ![col] = column[i]]])

RECURSIVE CollapseFrom(_, _, _)
\* the rounds of the loop from position ind on
CollapseFrom(tobereturned, hier, ind) ==
    IF ind > Len(hier) THEN tobereturned
    ELSE CollapseFrom(CollapseColumn(tobereturned, hier, ind), hier, ind + 1)

\* the table remove_redundancies gives for a table that has every column
\* of the hierarchy
Collapsed(df, hier) == CollapseFrom(df, hier, 1)

\* what remove_redundancies gives back: the collapsed copy, or the KeyError
\* of the first hierarchy label that is no column of the table
RemoveRedundanciesOutcome(df, hier) ==
    LET lack == MissingLabel(df, hier)
    IN IF lack # None
       THEN Raised("remove_redundancies", "KeyError", lack[1], <<>>)
       ELSE Returned("remove_redundancies", Collapsed(df, hier))

\* the tables at hand to pass on: the one the last call returned and the
\* one the caller has built
Arguments ==
    (IF ret.raised = "" /\ ret.op \notin {"", "__init__"}
     THEN {ret.df} ELSE {})
        \cup (IF table = None THEN {} ELSE {table[1]})

\* remove_redundancies(input_df): works on a copy, the engine is untouched
remove_redundancies ==
    /\ pc = "ready"
    /\ \E arg \in Arguments :
          /\ input_df' = arg
          /\ ret' = RemoveRedundanciesOutcome(arg, hierarchy)
    /\ logged' = <<>>
    /\ UNCHANGED collaborators
    /\ UNCHANGED <<self_dataframe, others_dataframe, hierarchy,
                   _count_dataframe, _merged_dataframe, pc, table,
                   computations>>

Next ==
    \/ Construct
    \/ GetCountDataframe
    \/ GetMergedDataframe
    \/ match_dataframe
    \/ only_me_dataframe
    \/ only_others_dataframe
    \/ remove_redundancies

Spec == Init /\ [][Next]_vars

\* the validation runs
InitValidation ==
    /\ self_dataframe \in ValidationSelfTables
    /\ others_dataframe \in ValidationOthersTables
    /\ hierarchy = <<quality_name, count_name, my_final_comments,
                     reviewer_name, others_final_comments>>
    /\ _count_dataframe = None
    /\ _merged_dataframe = None
    /\ pc = "init"
    /\ ret = Returned("", NoFrame)
    /\ input_df = NoFrame
    /\ table = None
    /\ computations = [count |-> 0, merged |-> 0]
    /\ logged = <<>>
    /\ sheets_client = <<>>
    /\ downloader = <<>>
    /\ trace = <<>>

SpecValidation == InitValidation /\ [][Next]_vars

\* the runs on the tables of the tests, with the rows of either table
\* beginning at any row
InitFixture ==
    /\ self_dataframe \in {SelfFrame(rows) : rows \in Rotations(FixtureSelfRows)}
    /\ others_dataframe \in
          {OthersFrame(rows) : rows \in Rotations(FixtureOthersRows)}
    /\ hierarchy = <<quality_name, count_name, my_final_comments,
                     reviewer_name, others_final_comments>>
    /\ _count_dataframe = None
    /\ _merged_dataframe = None
    /\ pc = "init"
    /\ ret = Returned("", NoFrame)
    /\ input_df = NoFrame
    /\ table = None
    /\ computations = [count |-> 0, merged |-> 0]
    /\ logged = <<>>
    /\ sheets_client = <<>>
    /\ downloader = <<>>
    /\ trace = <<>>

SpecFixture == InitFixture /\ [][Next]_vars

\* the runs of remove_redundancies on tables of the caller: an engine on
\* one valid pair of tables, and a table the caller has built
InitCollapse ==
    /\ self_dataframe =
          SelfFrame(<<SelfRow(Str(1), Str(1)), SelfRow(Str(2), EmptyStr)>>)
    /\ others_dataframe =
          OthersFrame(<<OtherRow(Str(1), Str(1), Str(1)),
                        OtherRow(Str(1), EmptyStr, Str(2))>>)
    /\ hierarchy \in CollapseHierarchies
    /\ _count_dataframe = None
    /\ _merged_dataframe = None
    /\ pc = "init"
    /\ ret = Returned("", NoFrame)
    /\ input_df = NoFrame
    /\ table \in {Some(T) : T \in CollapseTables}
    /\ computations = [count |-> 0, merged |-> 0]
    /\ logged = <<>>
    /\ sheets_client = <<>>
    /\ downloader = <<>>
    /\ trace = <<>>

SpecCollapse == InitCollapse /\ [][Next]_vars

\* ------------------------------------------------- GoogleSheetsClient
credentials_name == "credentials"
scope_name == "scope"
project_id_name == "project_id"
type_name == "type"

\* a configuration of GoogleSheetsClient is the set of the keys the JSON
\* object has; project_id and type are keys of the object under
\* credentials, so they are there only with credentials
UnderCredentials == {project_id_name, type_name}
ClientConfigs ==
    {keys \in SUBSET ({credentials_name, scope_name} \cup UnderCredentials) :
        keys \cap UnderCredentials # {} => credentials_name \in keys}

\* what config_path leads to: no file, or a file with a configuration
NoFile == <<"no file">>
Files == {NoFile} \cup {<<"file", keys>> : keys \in ClientConfigs}

\* the objects gspread.authorize hands out
Handles == 1..MaxHandles

\* a call made during the last call: what was called, on what, the
\* exception it raised ("" when it returned) and what it returned
Called(call, arg, raised, value) ==
    [call |-> call, arg |-> arg, raised |-> raised, value |-> value]

\* a call that returned a value that is no table
ReturnedValue(op, value) ==
    [op |-> op, raised |-> "", text |-> "", names |-> <<>>, df |-> NoFrame,
     value |-> value]

\* the engine is not in use
NoEngine ==
    /\ self_dataframe = NoFrame
    /\ others_dataframe = NoFrame
    /\ hierarchy = <<>>
    /\ _count_dataframe = None
    /\ _merged_dataframe = None
    /\ pc = "absent"
    /\ input_df = NoFrame
    /\ table = None
    /\ computations = [count |-> 0, merged |-> 0]
    /\ logged = <<>>

\* GoogleSheetsClient.__init__: loads the configuration, or raises
\* FileNotFoundError; the stored client is unset
NewGoogleSheetsClient ==
    /\ sheets_client = None
    /\ \E file \in Files :
          IF file = NoFile
          THEN /\ ret' = Raised("GoogleSheetsClient", "FileNotFoundError",
                                "Configuration file not found", <<>>)
               /\ UNCHANGED sheets_client
          ELSE /\ sheets_client' = Some([config |-> file[2], _client |-> None])
               /\ ret' = Returned("GoogleSheetsClient", NoFrame)
    /\ trace' = <<>>
    /\ UNCHANGED <<engine, downloader>>

\* the caller deletes a key of client.config, as the tests do; the keys
\* under credentials go with credentials
DeleteConfigKey ==
    /\ sheets_client # None
    /\ \E key \in sheets_client[1].config :
          sheets_client' =
             Some([sheets_client[1] EXCEPT
                     !.config = @ \ (IF key = credentials_name
                                     THEN {key} \cup UnderCredentials
                                     ELSE {key})])
    /\ ret' = Returned("del", NoFrame)
    /\ trace' = <<>>
    /\ UNCHANGED <<engine, downloader>>

\* GoogleSheetsClient.check_keys: None when it returns, or the KeyError of
\* the first check that fails: the keys among credentials and scope that
\* the configuration lacks, then project_id
ClientKeysError(config) ==
    LET missing == SelectSeq(<<credentials_name, scope_name>>,
                             LAMBDA key : key \notin config)
    IN IF missing # <<>>
       THEN Some(Raised("check_keys", "KeyError",
                        "Keys missing from config", missing))
       ELSE IF project_id_name \notin config
       THEN Some(Raised("check_keys", "KeyError",
                        "'project_id' missing from config['credentials']",
                        <<>>))
       ELSE None

\* a call of GoogleSheetsClient.check_keys
GoogleSheetsClient_check_keys ==
    /\ sheets_client # None
    /\ LET error == ClientKeysError(sheets_client[1].config)
       IN /\ ret' = IF error # None THEN error[1]
                    ELSE Returned("check_keys", NoFrame)
          /\ trace' = <<Called("check_keys", "",
                               IF error # None THEN "KeyError" ELSE "", None)>>
    /\ UNCHANGED <<engine, downloader, sheets_client>>

\* what the libraries may answer when the property client asks for an
\* authorized client: from_json_keyfile_dict rejects the credentials, as it
\* does when they name no type, gspread.authorize fails, or it hands out a
\* client
Rejected == <<"rejected">>
Refused == <<"refused">>
AuthorizeAnswers(config) ==
    IF type_name \notin config THEN {Rejected}
    ELSE {Rejected, Refused} \cup {<<"client", h>> : h \in Handles}

\* the calls the property client makes after check_keys has returned, with
\* the given answer of the libraries
AuthorizeCalls(answer) ==
    IF answer = Rejected
    THEN <<Called("from_json_keyfile_dict", "", "ValueError", None)>>
    ELSE <<Called("from_json_keyfile_dict", "", "", None),
           IF answer = Refused
           THEN Called("authorize", "", "APIError", None)
           ELSE Called("authorize", "", "", Some(answer[2]))>>

\* a property client that authorizes before it checks the keys
GetClientUnchecked ==
    /\ sheets_client # None
    /\ IF sheets_client[1]._client # None
       THEN /\ ret' = ReturnedValue("client", sheets_client[1]._client[1])
            /\ trace' = <<>>
            /\ UNCHANGED sheets_client
       ELSE \E answer \in AuthorizeAnswers(sheets_client[1].config) :
               LET calls == AuthorizeCalls(answer)
                   last == calls[Len(calls)]
                   error == ClientKeysError(sheets_client[1].config)
               IN IF last.raised # ""
                  THEN /\ ret' = Raised("client", last.raised, last.call, <<>>)
                       /\ trace' = calls
                       /\ UNCHANGED sheets_client
                  ELSE /\ sheets_client' =
                             Some([sheets_client[1] EXCEPT
                                     !._client = last.value])
                       /\ trace' = Append(calls,
                                          Called("check_keys", "",
                                                 IF error # None
                                                 THEN "KeyError" ELSE "",
                                                 None))
                       /\ ret' = IF error # None
                                 THEN [error[1] EXCEPT !.op = "client"]
                                 ELSE ReturnedValue("client", last.value[1])
    /\ UNCHANGED <<engine, downloader>>

\* reading the property GoogleSheetsClient.client: the stored client, or
\* check_keys, the credentials, gspread.authorize, and the client stored
GetClient ==
    /\ sheets_client # None
    /\ IF sheets_client[1]._client # None
       THEN /\ ret' = ReturnedValue("client", sheets_client[1]._client[1])
            /\ trace' = <<>>
            /\ UNCHANGED sheets_client
       ELSE LET error == ClientKeysError(sheets_client[1].config)
            IN IF error # None
               THEN /\ ret' = [error[1] EXCEPT !.op = "client"]
                    /\ trace' = <<Called("check_keys", "", "KeyError", None)>>
                    /\ UNCHANGED sheets_client
               ELSE \E answer \in AuthorizeAnswers(sheets_client[1].config) :
                       LET calls == AuthorizeCalls(answer)
                           last == calls[Len(calls)]
                       IN /\ trace' = <<Called("check_keys", "", "", None)>>
                                         \o calls
                          /\ IF last.raised # ""
                             THEN /\ ret' = Raised("client", last.raised,
                                                   last.call, <<>>)
                                  /\ UNCHANGED sheets_client
                             ELSE /\ ret' = ReturnedValue("client",
                                                          last.value[1])
                                  /\ sheets_client' =
                                        Some([sheets_client[1] EXCEPT
                                                !._client = last.value])
    /\ UNCHANGED <<engine, downloader>>

InitClient ==
    /\ NoEngine
    /\ ret = Returned("", NoFrame)
    /\ sheets_client = None
    /\ downloader = None
    /\ trace = <<>>

NextClient ==
    \/ NewGoogleSheetsClient
    \/ DeleteConfigKey
    \/ GoogleSheetsClient_check_keys
    \/ GetClient

SpecClient == InitClient /\ [][NextClient]_vars

\* ------------------------------------------------ QualitiesDownloader
sheets_name == "sheets"
self_key == "self"
sheet_id_name == "sheet_id"
rename_name == "rename"
comment_name == "Examples, so I can understand"
\* the column labels of the tests: the one the sheets carry, and the one
\* the self sheet is renamed to
old_name == "old_name"
new_name == "new_name"

\* the sheet names of the tests, and str(rev_name).title() on them
SheetNames == {self_key, "other1", "other2"}
TitleCased(name) ==
    CASE name = "other1" -> "Other1"
      [] name = "other2" -> "Other2"
      [] name = self_key -> "Self"
NameCell(name) == <<"name", TitleCased(name)>>

\* an entry of config['sheets']: its name, whether it has the key sheet_id,
\* and whether it has the key rename, which maps old_name to new_name in
\* the self sheet and to the comment column in the others, as in the tests
Sheet(name, id, rename) == [name |-> name, sheet_id |-> id, rename |-> rename]

\* the sequences of distinct names out of the given ones: the keys of a
\* JSON object, in the order of the file
DistinctNames(among) ==
    {names \in UNION {[1..k -> among] : k \in 0..Cardinality(among)} :
        \A i, j \in DOMAIN names : i # j => names[i] # names[j]}

\* the lists of entries under the given names in which at most one entry
\* differs from the entries of the tests, which have both keys
SheetLists(among) ==
    {[i \in DOMAIN names |->
         IF i = d THEN Sheet(names[i], id, rename)
         ELSE Sheet(names[i], TRUE, TRUE)] :
       names \in DistinctNames(among), d \in 0..Cardinality(among),
       id \in BOOLEAN, rename \in BOOLEAN}

\* the configurations of QualitiesDownloader with sheets of the given
\* names: without the key sheets, or with the list of its sheets
DownloaderConfigs(among) ==
    {[sheets |-> None]}
        \cup {[sheets |-> Some(list)] : list \in SheetLists(among)}

\* the configurations of the tests with their sheets in any order, some
\* left out
OrderedConfigs ==
    {[sheets |-> Some([i \in DOMAIN names |-> Sheet(names[i], TRUE, TRUE)])] :
        names \in DistinctNames(SheetNames)}

\* the names of the configured sheets, in order, and those other than self
NamesOf(config) ==
    [i \in DOMAIN config.sheets[1] |-> config.sheets[1][i].name]
OthersOfConfig(config) ==
    SelectSeq(config.sheets[1], LAMBDA sheet : sheet.name # self_key)
SheetOf(config, name) ==
    CHOOSE sheet \in Range(config.sheets[1]) : sheet.name = name

\* a worksheet as pd.DataFrame(table[1:], columns=table[0]) reads it: a
\* quality column and a column of comments under either label, string cells
RemoteRow(label, c) == (quality_name :> Str(1)) @@ (label :> c)
RemoteTablesUnder(label) ==
    {DataFrame(<<quality_name, label>>, rows) :
        rows \in UNION {[1..k -> {RemoteRow(label, c) : c \in Comments}] :
                          k \in 0..MaxSheetRows}}
RemoteTables ==
    UNION {RemoteTablesUnder(label) : label \in {old_name, comment_name}}

\* what download_sheet may get for a sheet: the IndexError of a tab that is
\* not there, or a table
Answers(name) ==
    {Called("open_by_key", name, "IndexError", None)}
        \cup {Called("open_by_key", name, "", Some(t)) : t \in RemoteTables}

\* an answer for each of the listed sheets
AnswersFor(sheets) ==
    LET names == {sheets[i].name : i \in DOMAIN sheets}
    IN {answers \in [names -> UNION {Answers(name) : name \in names}] :
          \A name \in names : answers[name].arg = name}

\* the calls a method has made and what it gave
Run(calls, outcome) == [calls |-> calls, outcome |-> outcome]

\* a check_keys that looks for the sheet ids before it looks for self
DownloaderKeysErrorIdsFirst(config) ==
    IF config.sheets = None
    THEN Some(Raised("check_keys", "KeyError", "Keys missing from config",
                     <<sheets_name>>))
    ELSE LET sheets_w_missing_id_key ==
                 SelectSeq(config.sheets[1], LAMBDA sheet : ~sheet.sheet_id)
         IN IF sheets_w_missing_id_key # <<>>
            THEN Some(Raised("check_keys", "KeyError",
                             "sheet_id is missing from",
                             [i \in DOMAIN sheets_w_missing_id_key |->
                                 sheets_w_missing_id_key[i].name]))
            ELSE IF self_key \notin Range(NamesOf(config))
            THEN Some(Raised("check_keys", "KeyError",
                             "'self' missing from config['sheets']", <<>>))
            ELSE None

\* QualitiesDownloader.check_keys: None when it returns, or the KeyError of
\* the first check that fails
DownloaderKeysError(config) ==
    IF config.sheets = None
    THEN Some(Raised("check_keys", "KeyError", "Keys missing from config",
                     <<sheets_name>>))
    ELSE IF self_key \notin Range(NamesOf(config))
    THEN Some(Raised("check_keys", "KeyError",
                     "'self' missing from config['sheets']", <<>>))
    ELSE LET sheets_w_missing_id_key ==
                 SelectSeq(config.sheets[1], LAMBDA sheet : ~sheet.sheet_id)
         IN IF sheets_w_missing_id_key # <<>>
            THEN Some(Raised("check_keys", "KeyError",
                             "sheet_id is missing from",
                             [i \in DOMAIN sheets_w_missing_id_key |->
                                 sheets_w_missing_id_key[i].name]))
            ELSE None

\* download_self with the given answer of the sheets client: the chain of
\* .get() fails on a configuration without sheets or without self, before
\* the client is asked
download_self(config, answer) ==
    IF config.sheets = None \/ self_key \notin Range(NamesOf(config))
    THEN Run(<<>>, Raised("download_self", "AttributeError",
                          "'NoneType' object has no attribute 'get'", <<>>))
    ELSE IF answer.raised # ""
    THEN Run(<<answer>>,
             Raised("download_self", answer.raised, "Tab index", <<>>))
    ELSE Run(<<answer>>,
             Returned("download_self",
                      IF SheetOf(config, self_key).rename
                      THEN Rename(answer.value[1], old_name, new_name)
                      ELSE answer.value[1]))

\* tobereturned[reviewer_name] = cell: the column is set in every row, and
\* added as the last column when it is new
WithColumn(df, col, cell) ==
    LET cols == IF HasCol(df, col) THEN df.columns ELSE Append(df.columns, col)
    IN DataFrame(cols,
                 [i \in DOMAIN df.rows |->
                    [c \in Range(cols) |->
                        IF c = col THEN cell ELSE df.rows[i][c]]])

\* the rows with a non-empty comment
Chosen(df) ==
    Filter(df, [i \in DOMAIN df.rows |-> StrLen(df.rows[i][comment_name]) > 0])

\* _download_other with the given answer of the sheets client: the renamed
\* table with the reviewer column, without the rows of empty comment when
\* remove_unchosen is set; KeyError when the comment column is missing,
\* which the count for the log reads in either case
_download_other(sheet, answer, remove_unchosen) ==
    IF answer.raised # ""
    THEN Raised("_download_other", answer.raised, "Tab index", <<>>)
    ELSE LET renamed == IF sheet.rename
                        THEN Rename(answer.value[1], old_name, comment_name)
                        ELSE answer.value[1]
             tobereturned == WithColumn(renamed, reviewer_name,
                                        NameCell(sheet.name))
         IN IF ~HasCol(tobereturned, comment_name)
            THEN Raised("_download_other", "KeyError", comment_name, <<>>)
            ELSE Returned("_download_other",
                          IF remove_unchosen THEN Chosen(tobereturned)
                          ELSE tobereturned)

RECURSIVE Gathered(_, _, _)
\* the loop of download_others over the listed sheets: the calls made, the
\* tables appended, and the exception that ended the loop, if any
Gathered(sheets, answers, remove_unchosen) ==
    IF sheets = <<>>
    THEN [calls |-> <<>>, frames |-> <<>>, error |-> None]
    ELSE LET answer == answers[Head(sheets).name]
             tobeappended == _download_other(Head(sheets), answer,
                                             remove_unchosen)
             rest == Gathered(Tail(sheets), answers, remove_unchosen)
         IN IF tobeappended.raised # ""
            THEN [calls |-> <<answer>>, frames |-> <<>>,
                  error |-> Some(tobeappended)]
            ELSE [calls |-> <<answer>> \o rest.calls,
                  frames |-> <<tobeappended.df>> \o rest.frames,
                  error |-> rest.error]

RECURSIVE Concat(_)
\* pd.concat of tables of the same columns: the rows of each in turn
Concat(frames) ==
    IF Len(frames) = 1 THEN frames[1]
    ELSE DataFrame(frames[1].columns,
                   frames[1].rows \o Concat(Tail(frames)).rows)

\* download_others with the given answers of the sheets client: iterating
\* over a missing config['sheets'] raises TypeError, a failing sheet ends
\* the loop, and pd.concat raises ValueError on an empty list
download_others(config, answers, remove_unchosen) ==
    IF config.sheets = None
    THEN Run(<<>>, Raised("download_others", "TypeError",
                          "'NoneType' object is not iterable", <<>>))
    ELSE LET got == Gathered(OthersOfConfig(config), answers, remove_unchosen)
         IN IF got.error # None
            THEN Run(got.calls, [got.error[1] EXCEPT !.op = "download_others"])
            ELSE IF got.frames = <<>>
            THEN Run(got.calls,
                     Raised("download_others", "ValueError",
                            "No objects to concatenate", <<>>))
            ELSE Run(got.calls,
                     Returned("download_others", Concat(got.frames)))

\* the call of check_keys in a trace
Checked(error) ==
    Called("check_keys", "", IF error # None THEN "KeyError" ELSE "", None)

\* a call of QualitiesDownloader.check_keys
QualitiesDownloader_check_keys ==
    /\ downloader # None
    /\ LET error == DownloaderKeysError(downloader[1].config)
       IN /\ ret' = IF error # None THEN error[1]
                    ELSE Returned("check_keys", NoFrame)
          /\ trace' = <<Checked(error)>>
    /\ UNCHANGED <<engine, sheets_client, downloader>>

\* what a call gave, with the argument it was given
Argued(outcome, arg) ==
    [op |-> outcome.op, raised |-> outcome.raised, text |-> outcome.text,
     names |-> outcome.names, df |-> outcome.df, arg |-> arg]

\* a call of download_others(remove_unchosen)
CallDownloadOthers ==
    /\ downloader # None
    /\ \E remove_unchosen \in BOOLEAN :
       \E answers \in AnswersFor(IF downloader[1].config.sheets = None
                                 THEN <<>>
                                 ELSE OthersOfConfig(downloader[1].config)) :
          LET run == download_others(downloader[1].config, answers,
                                     remove_unchosen)
          IN /\ ret' = Argued(run.outcome, remove_unchosen)
             /\ trace' = run.calls
    /\ UNCHANGED <<engine, sheets_client, downloader>>

\* the answer the self sheet may give, when the client is asked at all
SelfAnswers == Answers(self_key)

\* the answers the other sheets of the configuration may give
OthersAnswers ==
    AnswersFor(IF downloader[1].config.sheets = None THEN <<>>
               ELSE OthersOfConfig(downloader[1].config))

\* refresh_self_dataframe: downloads and stores, whatever the cache holds
refresh_self_dataframe ==
    /\ downloader # None
    /\ \E answer \in SelfAnswers :
          LET run == download_self(downloader[1].config, answer)
          IN /\ trace' = run.calls
             /\ IF run.outcome.raised # ""
                THEN /\ ret' = [run.outcome EXCEPT
                                  !.op = "refresh_self_dataframe"]
                     /\ UNCHANGED downloader
                ELSE /\ ret' = Returned("refresh_self_dataframe", NoFrame)
                     /\ downloader' =
                           Some([downloader[1] EXCEPT
                                   !._self_dataframe = Some(run.outcome.df)])
    /\ UNCHANGED <<engine, sheets_client>>

\* a property self_dataframe that downloads before it checks the keys
GetSelfDataframeUnchecked ==
    /\ downloader # None
    /\ IF downloader[1]._self_dataframe # None
       THEN /\ ret' = Returned("self_dataframe",
                               downloader[1]._self_dataframe[1])
            /\ trace' = <<>>
            /\ UNCHANGED downloader
       ELSE \E answer \in SelfAnswers :
               LET run == download_self(downloader[1].config, answer)
                   error == DownloaderKeysError(downloader[1].config)
               IN /\ trace' = Append(run.calls, Checked(error))
                  /\ IF run.outcome.raised # ""
                     THEN /\ ret' = [run.outcome EXCEPT
                                       !.op = "self_dataframe"]
                          /\ UNCHANGED downloader
                     ELSE /\ ret' = IF error # None
                                    THEN [error[1] EXCEPT
                                            !.op = "self_dataframe"]
                                    ELSE Returned("self_dataframe",
                                                  run.outcome.df)
                          /\ downloader' =
                                Some([downloader[1] EXCEPT
                                        !._self_dataframe =
                                            Some(run.outcome.df)])
    /\ UNCHANGED <<engine, sheets_client>>

\* reading the property self_dataframe: the cached table, or check_keys,
\* the download, and the table stored
GetSelfDataframe ==
    /\ downloader # None
    /\ IF downloader[1]._self_dataframe # None
       THEN /\ ret' = Returned("self_dataframe",
                               downloader[1]._self_dataframe[1])
            /\ trace' = <<>>
            /\ UNCHANGED downloader
       ELSE LET error == DownloaderKeysError(downloader[1].config)
            IN IF error # None
               THEN /\ ret' = [error[1] EXCEPT !.op = "self_dataframe"]
                    /\ trace' = <<Checked(error)>>
                    /\ UNCHANGED downloader
               ELSE \E answer \in SelfAnswers :
                       LET run == download_self(downloader[1].config, answer)
                       IN /\ trace' = <<Checked(error)>> \o run.calls
                          /\ IF run.outcome.raised # ""
                             THEN /\ ret' = [run.outcome EXCEPT
                                               !.op = "self_dataframe"]
                                  /\ UNCHANGED downloader
                             ELSE /\ ret' = Returned("self_dataframe",
                                                     run.outcome.df)
                                  /\ downloader' =
                                        Some([downloader[1] EXCEPT
                                                !._self_dataframe =
                                                    Some(run.outcome.df)])
    /\ UNCHANGED <<engine, sheets_client>>

\* refresh_others_dataframe: downloads with remove_unchosen at its default
\* and stores, whatever the cache holds
refresh_others_dataframe ==
    /\ downloader # None
    /\ \E answers \in OthersAnswers :
          LET run == download_others(downloader[1].config, answers, TRUE)
          IN /\ trace' = run.calls
             /\ IF run.outcome.raised # ""
                THEN /\ ret' = [run.outcome EXCEPT
                                  !.op = "refresh_others_dataframe"]
                     /\ UNCHANGED downloader
                ELSE /\ ret' = Returned("refresh_others_dataframe", NoFrame)
                     /\ downloader' =
                           Some([downloader[1] EXCEPT
                                   !._others_dataframe = Some(run.outcome.df)])
    /\ UNCHANGED <<engine, sheets_client>>

\* reading the property others_dataframe: the cached table, or check_keys,
\* the download, and the table stored
GetOthersDataframe ==
    /\ downloader # None
    /\ IF downloader[1]._others_dataframe # None
       THEN /\ ret' = Returned("others_dataframe",
                               downloader[1]._others_dataframe[1])
            /\ trace' = <<>>
            /\ UNCHANGED downloader
       ELSE LET error == DownloaderKeysError(downloader[1].config)
            IN IF error # None
               THEN /\ ret' = [error[1] EXCEPT !.op = "others_dataframe"]
                    /\ trace' = <<Checked(error)>>
                    /\ UNCHANGED downloader
               ELSE \E answers \in OthersAnswers :
                       LET run == download_others(downloader[1].config,
                                                  answers, TRUE)
                       IN /\ trace' = <<Checked(error)>> \o run.calls
                          /\ IF run.outcome.raised # ""
                             THEN /\ ret' = [run.outcome EXCEPT
                                               !.op = "others_dataframe"]
                                  /\ UNCHANGED downloader
                             ELSE /\ ret' = Returned("others_dataframe",
                                                     run.outcome.df)
                                  /\ downloader' =
                                        Some([downloader[1] EXCEPT
                                                !._others_dataframe =
                                                    Some(run.outcome.df)])
    /\ UNCHANGED <<engine, sheets_client>>

\* QualitiesDownloader.__init__ has loaded the configuration, taken the
\* sheets client it was given and left both caches empty
Constructed(config) ==
    Some([config |-> config, _self_dataframe |-> None,
          _others_dataframe |-> None])

\* the runs of the caches, on configurations of the self sheet and one
\* other sheet
InitDownloader ==
    /\ NoEngine
    /\ ret = Returned("", NoFrame)
    /\ sheets_client = None
    /\ downloader \in {Constructed(config) :
                         config \in DownloaderConfigs({self_key, "other1"})}
    /\ trace = <<>>

NextDownloader ==
    \/ QualitiesDownloader_check_keys
    \/ refresh_self_dataframe
    \/ GetSelfDataframe
    \/ refresh_others_dataframe
    \/ GetOthersDataframe

SpecDownloader == InitDownloader /\ [][NextDownloader]_vars

\* the direct calls of download_others, also on the configurations of
\* all the sheets of the tests
InitDownloadOthers ==
    /\ NoEngine
    /\ ret = Returned("", NoFrame)
    /\ sheets_client = None
    /\ downloader \in {Constructed(config) :
                         config \in DownloaderConfigs({self_key, "other1"})
                                       \cup OrderedConfigs}
    /\ trace = <<>>

NextDownloadOthers == CallDownloadOthers

SpecDownloadOthers == InitDownloadOthers /\ [][NextDownloadOthers]_vars

\* ------------------------------------------------------------ properties
\* the last call was op and it returned
Gave(op) == ret.op = op /\ ret.raised = ""

\* the indices of the others-table rows for quality q
OthersOf(q) ==
    {i \in DOMAIN others_dataframe.rows :
        others_dataframe.rows[i][quality_name] = q}

\* those of them whose comment is not the empty string
ChosenOf(q) ==
    {i \in OthersOf(q) :
        others_dataframe.rows[i][others_input_comments] # EmptyStr}

\* the indices of the rows of a table for quality q
RowsOf(df, q) == {i \in DOMAIN df.rows : df.rows[i][quality_name] = q}

\* C1 as stated: count_dataframe holds for each quality the number of its
\* others-table rows with a non-empty comment, and a quality all of whose
\* others-rows have an empty comment does not appear in it.
C1_CountsNonEmptyComments ==
    Gave("count_dataframe") =>
        \A q \in Qualities :
            /\ ChosenOf(q) = {} => RowsOf(ret.df, q) = {}
            /\ ChosenOf(q) # {} =>
                  \E i \in DOMAIN ret.df.rows :
                      /\ RowsOf(ret.df, q) = {i}
                      /\ ret.df.rows[i][count_name] =
                            Num(Cardinality(ChosenOf(q)))

\* C1 amended: count_dataframe holds exactly one row for each quality that
\* has an others-table row, in ascending order of quality, with a count equal
\* to the number of others-table rows for that quality, rows with an empty
\* comment included.
C1_CountsEveryRow ==
    Gave("count_dataframe") =>
        /\ ret.df.columns = <<quality_name, count_name>>
        /\ \A q \in Qualities :
              /\ OthersOf(q) = {} => RowsOf(ret.df, q) = {}
              /\ OthersOf(q) # {} =>
                    \E i \in DOMAIN ret.df.rows :
                        /\ RowsOf(ret.df, q) = {i}
                        /\ ret.df.rows[i][count_name] =
                              Num(Cardinality(OthersOf(q)))
        /\ \A i, j \in DOMAIN ret.df.rows :
              i < j => ret.df.rows[i][quality_name][2]
                          < ret.df.rows[j][quality_name][2]

\* a count was returned for a quality that has an empty others comment
C1_Witness ==
    /\ Gave("count_dataframe")
    /\ \E q \in Qualities : ChosenOf(q) # OthersOf(q) /\ ChosenOf(q) # {}

\* the table has each of the listed columns
HasCols(df, cols) == \A c \in cols : HasCol(df, c)

\* the qualities of the self-table
SelfQualities ==
    {self_dataframe.rows[i][quality_name] : i \in DOMAIN self_dataframe.rows}

\* C2: consecutive rows of merged_dataframe are ordered by count descending,
\* then quality ascending, then reviewer ascending (stated over the merged
\* tables that keep the three sort columns).
C2_MergedSorted ==
    (Gave("merged_dataframe")
       /\ HasCols(ret.df, {count_name, quality_name, reviewer_name})) =>
        \A i \in 1..(Len(ret.df.rows) - 1) :
            LET r == ret.df.rows[i]
                t == ret.df.rows[i + 1]
            IN \/ r[count_name][2] > t[count_name][2]
               \/ /\ r[count_name][2] = t[count_name][2]
                  /\ r[quality_name][2] < t[quality_name][2]
               \/ /\ r[count_name][2] = t[count_name][2]
                  /\ r[quality_name] = t[quality_name]
                  /\ r[reviewer_name][2] <= t[reviewer_name][2]

\* the merged table came back with a higher count first, a quality first that
\* is not the first of the self-table, and two reviewers of one quality that
\* the others-table lists in the opposite order
C2_Witness ==
    /\ Gave("merged_dataframe")
    /\ HasCols(ret.df, {count_name, quality_name, reviewer_name})
    /\ Len(ret.df.rows) >= 3
    /\ ret.df.rows[1][quality_name] # self_dataframe.rows[1][quality_name]
    /\ ret.df.rows[2][count_name][2] > ret.df.rows[3][count_name][2]
    /\ ret.df.rows[1][reviewer_name][2] < ret.df.rows[2][reviewer_name][2]
    /\ others_dataframe.rows[1][reviewer_name][2]
          > others_dataframe.rows[2][reviewer_name][2]

\* the number of merged rows a self quality fans out to
FanOut(q) == IF OthersOf(q) = {} THEN 1 ELSE Cardinality(OthersOf(q))

\* C3: merged_dataframe holds, for every self quality, one row per
\* others-table row of that quality, carrying that row's reviewer and comment,
\* or one row with empty reviewer and empty other-comment when there is none;
\* it holds no row for a quality outside the self-table.
C3_FanOut ==
    (Gave("merged_dataframe") /\ HasCol(ret.df, quality_name)) =>
        /\ \A q \in SelfQualities :
              Cardinality(RowsOf(ret.df, q)) = FanOut(q)
        /\ \A i \in DOMAIN ret.df.rows :
              ret.df.rows[i][quality_name] \in SelfQualities
        /\ HasCols(ret.df, {reviewer_name, others_final_comments}) =>
              \A q \in SelfQualities :
                 IF OthersOf(q) = {}
                 THEN \A i \in RowsOf(ret.df, q) :
                         /\ ret.df.rows[i][reviewer_name] = EmptyStr
                         /\ ret.df.rows[i][others_final_comments] = EmptyStr
                 ELSE \A r \in Reviewers, c \in Comments :
                         Cardinality({i \in RowsOf(ret.df, q) :
                            /\ ret.df.rows[i][reviewer_name] = r
                            /\ ret.df.rows[i][others_final_comments] = c})
                         = Cardinality({j \in OthersOf(q) :
                              /\ others_dataframe.rows[j][reviewer_name] = r
                              /\ others_dataframe.rows[j]
                                    [others_input_comments] = c})

\* the merged table came back with two rows for one self quality and the one
\* empty row for another
C3_Witness ==
    /\ Gave("merged_dataframe")
    /\ HasCols(ret.df, {quality_name, reviewer_name, others_final_comments})
    /\ \E q \in SelfQualities : Cardinality(OthersOf(q)) = 2
    /\ \E i \in DOMAIN ret.df.rows :
          /\ OthersOf(ret.df.rows[i][quality_name]) = {}
          /\ ret.df.rows[i][reviewer_name] = EmptyStr

\* C4: merged_dataframe has no null cell: the count is an integer >= 0 and
\* every other cell a string; a self quality that count_dataframe does not
\* list has count 0 in each of its merged rows.
C4_NoNulls ==
    Gave("merged_dataframe") =>
        /\ \A i \in DOMAIN ret.df.rows : \A c \in Range(ret.df.columns) :
              LET v == ret.df.rows[i][c]
              IN /\ ~IsNull(v)
                 /\ IF c = count_name THEN v[1] = "int" /\ v[2] >= 0
                    ELSE IsStr(v)
        /\ HasCols(ret.df, {quality_name, count_name}) =>
              \A i \in DOMAIN ret.df.rows :
                 RowsOf(_count_dataframe[1], ret.df.rows[i][quality_name]) = {}
                    => ret.df.rows[i][count_name] = Num(0)

\* the merged table came back with a row for a quality that the count table
\* does not list
C4_Witness ==
    /\ Gave("merged_dataframe")
    /\ HasCols(ret.df, {quality_name, count_name, reviewer_name})
    /\ \E i \in DOMAIN ret.df.rows :
          /\ RowsOf(_count_dataframe[1], ret.df.rows[i][quality_name]) = {}
          /\ ret.df.rows[i][count_name] = Num(0)
          /\ ret.df.rows[i][reviewer_name] = EmptyStr

\* the five columns the merge computes
ComputedColumns ==
    {quality_name, count_name, my_final_comments, reviewer_name,
     others_final_comments}

\* C5 as stated: the columns of merged_dataframe are the computed columns
\* that hierarchy names, in hierarchy's left-to-right order.
C5_ColumnsInHierarchyOrder ==
    Gave("merged_dataframe") =>
        ret.df.columns =
            SelectSeq(hierarchy, LAMBDA c : c \in ComputedColumns)

\* the three classification views
ViewOps == {"match_dataframe", "only_me_dataframe", "only_others_dataframe"}

\* the predicate of a view, on a merged row
Satisfies(op, r) ==
    CASE op = "match_dataframe" ->
            r[count_name][2] > 0 /\ r[my_final_comments] # EmptyStr
      [] op = "only_me_dataframe" ->
            r[count_name][2] = 0 /\ r[my_final_comments] # EmptyStr
      [] op = "only_others_dataframe" ->
            r[count_name][2] > 0 /\ r[my_final_comments] = EmptyStr

\* C6: a view that returns gives back the merged table's columns and exactly
\* the merged rows that satisfy its predicate, in merged order: its k-th row
\* is the k-th merged row satisfying the predicate.
C6_ViewsSelectByPredicate ==
    \A op \in ViewOps :
        Gave(op) =>
            LET merged == _merged_dataframe[1]
                hits == {i \in DOMAIN merged.rows :
                            Satisfies(op, merged.rows[i])}
            IN /\ ret.df.columns = merged.columns
               /\ Len(ret.df.rows) = Cardinality(hits)
               /\ \A i \in hits :
                     ret.df.rows[Cardinality({j \in hits : j <= i})]
                        = merged.rows[i]

\* only_others_dataframe returned some but not all of the merged rows, and
\* the merged table also holds rows of match_dataframe
C6_Witness ==
    /\ Gave("only_others_dataframe")
    /\ ret.df.rows # <<>>
    /\ Len(ret.df.rows) < Len(_merged_dataframe[1].rows)
    /\ \E i \in DOMAIN _merged_dataframe[1].rows :
          Satisfies("match_dataframe", _merged_dataframe[1].rows[i])

\* the qualities of the rows of a table
QualitiesIn(df) == {df.rows[i][quality_name] : i \in DOMAIN df.rows}

\* C7: the three views are pairwise disjoint: whenever one view is called
\* right after another on the same engine, the two results share no row and
\* no quality.
C7_ViewsDisjoint ==
    [][(/\ ret.op \in ViewOps /\ ret.raised = ""
        /\ ret'.op \in ViewOps /\ ret'.raised = ""
        /\ ret'.op # ret.op)
       => /\ Range(ret.df.rows) \cap Range(ret'.df.rows) = {}
          /\ QualitiesIn(ret.df) \cap QualitiesIn(ret'.df) = {}]_vars

\* only_me_dataframe returned rows on an engine whose merged table also holds
\* rows of match_dataframe
C7_Witness ==
    /\ Gave("only_me_dataframe")
    /\ ret.df.rows # <<>>
    /\ \E i \in DOMAIN _merged_dataframe[1].rows :
          Satisfies("match_dataframe", _merged_dataframe[1].rows[i])

\* a merged row of the residual class: count 0 and an empty self comment
Residual(r) == r[count_name][2] = 0 /\ r[my_final_comments] = EmptyStr

\* C8 as stated: no row of merged_dataframe has count 0 and an empty self
\* comment, so every merged row is in one of the three views.
C8_NoResidual ==
    (Gave("merged_dataframe")
       /\ HasCols(ret.df, {count_name, my_final_comments})) =>
        \A i \in DOMAIN ret.df.rows :
            \E op \in ViewOps : Satisfies(op, ret.df.rows[i])

\* the self comment of quality q
SelfComment(q) ==
    LET i == CHOOSE j \in DOMAIN self_dataframe.rows :
                self_dataframe.rows[j][quality_name] = q
    IN self_dataframe.rows[i][my_input_comments]

\* C8 amended: a merged row is in the residual class exactly when its quality
\* has an empty self comment and no others-table row; every other merged row
\* satisfies the predicate of exactly one view.
C8_ResidualIsBlankAndUnreviewed ==
    (Gave("merged_dataframe")
       /\ HasCols(ret.df, {quality_name, count_name, my_final_comments})) =>
        \A i \in DOMAIN ret.df.rows :
            LET r == ret.df.rows[i]
                q == r[quality_name]
            IN /\ Residual(r) <=>
                     (SelfComment(q) = EmptyStr /\ OthersOf(q) = {})
               /\ ~Residual(r) =>
                     Cardinality({op \in ViewOps : Satisfies(op, r)}) = 1

\* the merged table came back with a row of the residual class next to a row
\* of a quality that has reviewers
C8_Witness ==
    /\ Gave("merged_dataframe")
    /\ HasCols(ret.df, {quality_name, count_name, my_final_comments})
    /\ \E i \in DOMAIN ret.df.rows : Residual(ret.df.rows[i])
    /\ \E i \in DOMAIN ret.df.rows : ret.df.rows[i][count_name][2] > 0

\* C9: every row of match_dataframe and of only_others_dataframe has a count
\* equal to the number of rows of that view with the row's quality.
C9_CountIsGroupSize ==
    \A op \in {"match_dataframe", "only_others_dataframe"} :
        Gave(op) =>
            \A i \in DOMAIN ret.df.rows :
                ret.df.rows[i][count_name] =
                    Num(Cardinality(RowsOf(ret.df,
                                           ret.df.rows[i][quality_name])))

\* match_dataframe returned two rows of one quality, one of them for a
\* reviewer who left the comment empty
C9_Witness ==
    /\ Gave("match_dataframe")
    /\ HasCol(ret.df, others_final_comments)
    /\ \E i, j \in DOMAIN ret.df.rows :
          /\ i # j
          /\ ret.df.rows[i][quality_name] = ret.df.rows[j][quality_name]
          /\ ret.df.rows[i][others_final_comments] = EmptyStr

\* the qualities that occur more than once in the self-table
Repeated ==
    {q \in QualitiesIn(self_dataframe) :
        Cardinality(RowsOf(self_dataframe, q)) >= 2}

\* C10: with a repeated quality in the self-table, construction fails with
\* the duplicate-entry ValueError, whose message lists each repeated quality
\* once and no other quality.
C10_DuplicatesRejected ==
    (pc # "init" /\ Repeated # {}) =>
        /\ pc = "failed"
        /\ ret.op = "__init__"
        /\ ret.raised = "ValueError"
        /\ ret.text \in {"There is a duplicated entry",
                         "There are duplicated entries"}
        /\ Range(ret.names) = Repeated
        /\ Len(ret.names) = Cardinality(Repeated)

\* construction failed on a self-table with a quality that occurs three times
\* or two repeated qualities, and a quality that occurs once
C10_Witness ==
    /\ pc = "failed"
    /\ Repeated # {}
    /\ \/ Cardinality(Repeated) = 2
       \/ \E q \in Repeated : Cardinality(RowsOf(self_dataframe, q)) = 3
    /\ QualitiesIn(self_dataframe) # Repeated

\* the others-table qualities that the self-table lacks
Missing == QualitiesIn(others_dataframe) \ QualitiesIn(self_dataframe)

\* the missing-quality ValueError naming exactly the qualities of Missing
MissingReported ==
    /\ pc = "failed"
    /\ ret.op = "__init__"
    /\ ret.raised = "ValueError"
    /\ ret.text \in {"There is a quality missing from",
                     "There are qualities missing from"}
    /\ Range(ret.names) = Missing
    /\ Len(ret.names) = Cardinality(Missing)

\* C11 as stated: whenever the others-table holds a quality absent from the
\* self-table, construction fails with the missing-quality error naming
\* exactly the absent qualities.
C11_MissingAlwaysReported ==
    (pc # "init" /\ Missing # {}) => MissingReported

\* C11 amended: the same, for self-tables without a repeated quality (with
\* one, the duplicate check has raised first).
C11_MissingReportedWithoutDuplicates ==
    (pc # "init" /\ Missing # {} /\ Repeated = {}) => MissingReported

\* construction failed on an others-table with an absent quality and a
\* quality the self-table has
C11_Witness ==
    /\ pc = "failed"
    /\ Repeated = {}
    /\ Missing # {}
    /\ QualitiesIn(others_dataframe) # Missing

\* C12: the error speaks in the singular exactly when one quality offends
\* and in the plural exactly when more than one does, for the duplicate
\* error and for the missing-quality error.
C12_SingularPlural ==
    pc = "failed" =>
        IF Repeated # {}
        THEN ret.text = IF Cardinality(Repeated) = 1
                        THEN "There is a duplicated entry"
                        ELSE "There are duplicated entries"
        ELSE ret.text = IF Cardinality(Missing) = 1
                        THEN "There is a quality missing from"
                        ELSE "There are qualities missing from"

\* construction failed with the plural wording
C12_Witness ==
    /\ pc = "failed"
    /\ Len(ret.names) > 1
    /\ ret.text \in {"There are duplicated entries",
                     "There are qualities missing from"}

\* C13: validation happens in the constructor: an engine is never ready on
\* a self-table with a repeated quality or on an others-table with a quality
\* the self-table lacks; on valid tables construction succeeds, and when it
\* returns both caches are empty and neither the count aggregation nor the
\* merge has run.
C13_ValidatedAtConstruction ==
    /\ (Repeated # {} \/ Missing # {}) => pc # "ready"
    /\ (pc # "init" /\ Repeated = {} /\ Missing = {}) => pc = "ready"
    /\ Gave("__init__") =>
          /\ pc = "ready"
          /\ _count_dataframe = None
          /\ _merged_dataframe = None
          /\ computations = [count |-> 0, merged |-> 0]

\* construction has just succeeded on tables that share a quality
C13_Witness ==
    /\ Gave("__init__")
    /\ pc = "ready"
    /\ QualitiesIn(others_dataframe) \cap QualitiesIn(self_dataframe) # {}
    /\ _count_dataframe = None

\* C14: the count aggregation and the merge each run at most once; a filled
\* cache is never emptied or replaced; and a read of count_dataframe or
\* merged_dataframe, or a view, made when the cache is filled gives the
\* cached table (for a view, its rows under the view's mask).
C14_ComputedOnce ==
    [][ /\ computations'.count <= 1
        /\ computations'.merged <= 1
        /\ _count_dataframe # None => _count_dataframe' = _count_dataframe
        /\ _merged_dataframe # None => _merged_dataframe' = _merged_dataframe
        /\ (_count_dataframe # None /\ ret'.op = "count_dataframe") =>
              ret'.df = _count_dataframe[1]
        /\ (_merged_dataframe # None /\ ret'.op = "merged_dataframe") =>
              ret'.df = _merged_dataframe[1]
        /\ (_merged_dataframe # None /\ ret'.op \in ViewOps
                                     /\ ret'.raised = "") =>
              ret'.df = Filter(_merged_dataframe[1],
                               MaskOf(ret'.op, _merged_dataframe[1]))
      ]_vars

\* both caches are filled after one run each, and a view has just read the
\* merged table
C14_Witness ==
    /\ _count_dataframe # None
    /\ _merged_dataframe # None
    /\ computations = [count |-> 1, merged |-> 1]
    /\ ret.op \in ViewOps
    /\ ret.raised = ""
    /\ Len(ret.df.rows) > 0

\* the sorted merged table and its three views, where the merged table has
\* the columns the views read
MergedOutputs ==
    {merged_dataframe}
        \cup (IF HasCols(merged_dataframe, {count_name, my_final_comments})
              THEN {Filter(merged_dataframe, MaskOf(op, merged_dataframe)) :
                      op \in ViewOps}
              ELSE {})

\* the last call was remove_redundancies on sorted merged output
CollapsedMergedOutput ==
    /\ Gave("remove_redundancies")
    /\ input_df \in MergedOutputs

\* the cell of the returned table at row i and hierarchy position k is to
\* be blank: a row above, the same value there, blanks to its left
ToBlank(i, k) ==
    /\ i > 1
    /\ input_df.rows[i - 1][hierarchy[k]] = input_df.rows[i][hierarchy[k]]
    /\ \A j \in 1..(k - 1) : ret.df.rows[i][hierarchy[j]] = EmptyStr

\* C15 as stated: remove_redundancies on sorted merged output gives a
\* table in which the cell at row i and hierarchy column k is blank when i
\* is not the first row, the input cell equals the input cell above it and
\* every hierarchy column left of k is blank on row i, and in which every
\* other cell is the input cell.
C15_BlankedExactlyWhenRepeated ==
    CollapsedMergedOutput =>
        /\ ret.df.columns = input_df.columns
        /\ DOMAIN ret.df.rows = DOMAIN input_df.rows
        /\ \A i \in DOMAIN ret.df.rows :
              /\ \A k \in DOMAIN hierarchy :
                    ret.df.rows[i][hierarchy[k]] =
                        IF ToBlank(i, k) THEN EmptyStr
                        ELSE input_df.rows[i][hierarchy[k]]
              /\ \A c \in Range(ret.df.columns) \ Range(hierarchy) :
                    ret.df.rows[i][c] = input_df.rows[i][c]

\* the table T has a null count on two rows in a row, and in once, the
\* table collapsed once, every hierarchy column left of the count is blank
\* on the second of them
NullCountRepeats(T, once) ==
    \E i \in DOMAIN T.rows : \E k \in DOMAIN hierarchy :
        /\ hierarchy[k] = count_name
        /\ i > 1
        /\ IsNull(T.rows[i - 1][count_name])
        /\ IsNull(T.rows[i][count_name])
        /\ \A j \in 1..(k - 1) : once.rows[i][hierarchy[j]] = EmptyStr

\* twice has a blank count where once has a count
BlanksFurther(once, twice) ==
    \E i \in DOMAIN once.rows :
        /\ once.rows[i][count_name] # EmptyStr
        /\ twice.rows[i][count_name] = EmptyStr

\* C16: remove_redundancies is not idempotent: there are tables over the
\* hierarchy columns that a second application changes further.  Among the
\* caller's tables these are exactly the tables in which a null count
\* repeats under blanks, and there the second application blanks a cell
\* the first has kept.
C16_NotIdempotent ==
    table # None =>
        LET once == Collapsed(table[1], hierarchy)
            twice == Collapsed(once, hierarchy)
        IN /\ twice # once <=> NullCountRepeats(table[1], once)
           /\ twice # once => BlanksFurther(once, twice)

\* remove_redundancies has just been applied to its own result on the
\* caller's table and has blanked a count that the first application kept
C16_Witness ==
    /\ Gave("remove_redundancies")
    /\ table # None
    /\ input_df # table[1]
    /\ input_df = Collapsed(table[1], hierarchy)
    /\ ret.df # input_df
    /\ BlanksFurther(input_df, ret.df)

\* C17 as stated: a call of remove_redundancies that returns gives a table
\* with the rows and columns of its argument in the same order, each cell
\* blank or the cell of the argument at the same place, and leaves the
\* engine's tables and caches as they were.
C17_CellsBlankOrKept ==
    [][ (ret'.op = "remove_redundancies" /\ ret'.raised = "") =>
           /\ ret'.df.columns = input_df'.columns
           /\ DOMAIN ret'.df.rows = DOMAIN input_df'.rows
           /\ \A i \in DOMAIN ret'.df.rows :
                 \A c \in Range(ret'.df.columns) :
                    ret'.df.rows[i][c] \in {EmptyStr, input_df'.rows[i][c]}
           /\ input_df' \in Arguments
           /\ UNCHANGED <<self_dataframe, others_dataframe, hierarchy,
                          _count_dataframe, _merged_dataframe>>
      ]_vars

\* the last call was remove_redundancies on the table match_dataframe
\* returns
CollapsedMatch ==
    /\ Gave("remove_redundancies")
    /\ quality_name \in Range(hierarchy)
    /\ HasCols(merged_dataframe,
               {count_name, my_final_comments, quality_name, reviewer_name})
    /\ input_df = Filter(merged_dataframe,
                         MaskOf("match_dataframe", merged_dataframe))

\* in the returned table the quality q stands in the first of its rows and
\* in no other row, and the other rows of q have a blank quality cell
ShownOnce(q) ==
    LET shown == RowsOf(ret.df, q)
        rowsOfQ == RowsOf(input_df, q)
    IN /\ Cardinality(shown) = 1
       /\ \A i \in shown : i \in rowsOfQ /\ \A j \in rowsOfQ : i <= j
       /\ \A j \in rowsOfQ \ shown : ret.df.rows[j][quality_name] = EmptyStr

C19_NoOperationRaises ==
    /\ pc = "ready" => ret.raised = ""
    /\ ret.raised # "" => ret.op = "__init__"

\* the merged table as the tables handed to the constructor determine it
MergedOfInputs ==
    _merge_dataframes(self_dataframe, others_dataframe, hierarchy,
                      ComputeCount(others_dataframe))

\* C20: a call of a view leaves the self-table, the others-table and the
\* hierarchy as they were, leaves a filled cache as it was, leaves the
\* value of count_dataframe and of merged_dataframe as it was, and, when it
\* returns, gives the rows that the view's mask selects from the merged
\* table of the constructor's tables, so the same rows on every call.
C20_ViewsReadOnly ==
    [][ ret'.op \in ViewOps =>
           /\ UNCHANGED <<self_dataframe, others_dataframe, hierarchy>>
           /\ _count_dataframe # None => UNCHANGED _count_dataframe
           /\ _merged_dataframe # None => UNCHANGED _merged_dataframe
           /\ count_dataframe' = count_dataframe
           /\ LET merged == MergedOfInputs
              IN /\ merged_dataframe = merged
                 /\ merged_dataframe' = merged
                 /\ ret'.raised = "" =>
                       ret'.df = Filter(merged, MaskOf(ret'.op, merged))
           /\ ret.op = ret'.op => ret' = ret
      ]_vars

\* a view has returned rows from a merged table that holds more rows, with
\* both caches filled
C20_Witness ==
    /\ ret.op \in ViewOps
    /\ ret.raised = ""
    /\ _count_dataframe # None
    /\ _merged_dataframe # None
    /\ Len(ret.df.rows) > 0
    /\ Len(ret.df.rows) < Len(_merged_dataframe[1].rows)

\* the table with its rows i and i + 1 in each other's place
Swapped(df, i) ==
    DataFrame(df.columns,
              [j \in DOMAIN df.rows |->
                  IF j = i THEN df.rows[i + 1]
                  ELSE IF j = i + 1 THEN df.rows[i] ELSE df.rows[j]])

\* the tables that differ from df by one swap of neighbouring rows
Swaps(df) == {Swapped(df, i) : i \in 1..(Len(df.rows) - 1)}

\* the merged table is the one an engine gives on the self-table with two
\* neighbouring rows swapped, and on the others-table likewise.  Every
\* reordering is a chain of such swaps, and each table of the chain is a
\* table of the specification.
SameMergedAfterSwaps ==
    /\ \A s \in Swaps(self_dataframe) :
          _merge_dataframes(s, others_dataframe, hierarchy,
                            ComputeCount(others_dataframe)).rows
              = ret.df.rows
    /\ \A o \in Swaps(others_dataframe) :
          _merge_dataframes(self_dataframe, o, hierarchy,
                            ComputeCount(o)).rows
              = ret.df.rows

\* two rows of the others-table have the same quality and reviewer and
\* different comments
SamePairTwice ==
    \E i, j \in DOMAIN others_dataframe.rows :
        /\ others_dataframe.rows[i][quality_name]
              = others_dataframe.rows[j][quality_name]
        /\ others_dataframe.rows[i][reviewer_name]
              = others_dataframe.rows[j][reviewer_name]
        /\ others_dataframe.rows[i][others_input_comments]
              # others_dataframe.rows[j][others_input_comments]

\* C21 as stated: the row sequence of merged_dataframe is the same for
\* every order in which the rows of the two tables are supplied.
C21_OrderIndependent ==
    Gave("merged_dataframe") => SameMergedAfterSwaps

\* C21 amended: the same, for others-tables in which no reviewer has given
\* two different comments on one quality.
C21_OrderIndependentForDistinctPairs ==
    (Gave("merged_dataframe") /\ ~SamePairTwice) => SameMergedAfterSwaps

\* merged_dataframe has been read on tables of two rows each, where a
\* swap changes the table, and two merged rows tie on the count
C21_Witness ==
    /\ Gave("merged_dataframe")
    /\ ~SamePairTwice
    /\ Swaps(self_dataframe) # {self_dataframe}
    /\ Swaps(self_dataframe) # {}
    /\ Swaps(others_dataframe) # {others_dataframe}
    /\ Swaps(others_dataframe) # {}
    /\ HasCol(ret.df, count_name)
    /\ \E i, j \in DOMAIN ret.df.rows :
          i # j /\ ret.df.rows[i][count_name] = ret.df.rows[j][count_name]

\* the count cells of the rows of df with quality q
CountsOf(df, q) == {df.rows[i][count_name] : i \in RowsOf(df, q)}

\* C22: on the tables of the tests, count_dataframe gives 2 for Abstract
\* thinker and 1 for Analytical; match_dataframe holds Abstract thinker;
\* only_me_dataframe is one row, Spontaneous with count 0;
\* only_others_dataframe is three rows, each with a positive count, of
\* Independent and Ambitious.
C22_FixtureResults ==
    /\ pc # "init" => pc = "ready"
    /\ Gave("count_dataframe") =>
          /\ CountsOf(ret.df, AbstractThinker) = {Num(2)}
          /\ CountsOf(ret.df, Analytical) = {Num(1)}
    /\ ret.op \in ViewOps => ret.raised = ""
    /\ Gave("match_dataframe") => AbstractThinker \in QualitiesIn(ret.df)
    /\ Gave("only_me_dataframe") =>
          /\ Len(ret.df.rows) = 1
          /\ ret.df.rows[1][quality_name] = Spontaneous
          /\ ret.df.rows[1][count_name] = Num(0)
    /\ Gave("only_others_dataframe") =>
          /\ Len(ret.df.rows) = 3
          /\ \A i \in DOMAIN ret.df.rows : ret.df.rows[i][count_name][2] > 0
          /\ QualitiesIn(ret.df) = {Independent, Ambitious}

\* only_others_dataframe has returned its three rows on the tables of the
\* tests
C22_Witness ==
    /\ Gave("only_others_dataframe")
    /\ Range(self_dataframe.rows) = Range(FixtureSelfRows)
    /\ Range(others_dataframe.rows) = Range(FixtureOthersRows)
    /\ Len(ret.df.rows) = 3

\* C26: on a self-table with a repeated quality and an others-table with a
\* quality the self-table lacks, construction fails with the
\* duplicate-entry error, which names the repeated qualities and none of
\* the missing ones.
C26_DuplicatesBeforeMissing ==
    (pc # "init" /\ Repeated # {} /\ Missing # {}) =>
        /\ pc = "failed"
        /\ ret.raised = "ValueError"
        /\ ret.text \in {"There is a duplicated entry",
                         "There are duplicated entries"}
        /\ ret.text \notin {"There is a quality missing from",
                            "There are qualities missing from"}
        /\ Range(ret.names) = Repeated
        /\ Range(ret.names) \cap Missing = {}

\* construction has failed on tables with a repeated and a missing quality
C26_Witness ==
    /\ pc = "failed"
    /\ Repeated # {}
    /\ Missing # {}
    /\ ret.op = "__init__"

\* the messages of the last call that are about a reviewer
ReviewerLog == SelectSeq(logged, LAMBDA m : m.name # None)

\* the last call has logged one message about the reviewer, with the rows
\* of the returned view and the rows of the merged table by that reviewer,
\* and these are at least one, at most as many, and as many as the rows of
\* the others-table by that reviewer
OneMessageAbout(name) ==
    LET about == {k \in DOMAIN logged : logged[k].name = Some(Title(name))}
    IN /\ Cardinality(about) = 1
       /\ \A k \in about :
             /\ logged[k].num = RowsBy(ret.df, name)
             /\ logged[k].all = RowsBy(_merged_dataframe[1], name)
             /\ 1 <= logged[k].num
             /\ logged[k].num <= logged[k].all
             /\ logged[k].all = RowsBy(others_dataframe, name)

\* the cells in the reviewer column of the view the last call returned
ReviewersOfResult == {ret.df.rows[i][reviewer_name] : i \in DOMAIN ret.df.rows}

\* C29 as stated: each of the three views logs, for every distinct value in
\* the reviewer column of its result, one message 'K (out of M)' with K the
\* rows of the view and M the rows of the merged table with that value,
\* 1 <= K <= M, and M the number of others-table rows by that reviewer.
C29_EveryViewLogsPerReviewer ==
    \A op \in ViewOps :
        (Gave(op) /\ HasCol(ret.df, reviewer_name)) =>
            \A name \in ReviewersOfResult : OneMessageAbout(name)

\* C29: match_dataframe and only_others_dataframe log, for every distinct
\* reviewer in their result and for no one else, one message 'K (out of M)'
\* with K the rows of the view and M the rows of the merged table with that
\* reviewer, 1 <= K <= M, and M the number of others-table rows by that
\* reviewer; only_me_dataframe logs no message about a reviewer, and the
\* reviewer cell of each of its rows is blank.
C29_MatchAndOnlyOthersLogPerReviewer ==
    /\ \A op \in {"match_dataframe", "only_others_dataframe"} :
          Gave(op) =>
             /\ \A name \in ReviewersOfResult : OneMessageAbout(name)
             /\ Len(ReviewerLog) = Cardinality(ReviewersOfResult)
    /\ Gave("only_me_dataframe") =>
          /\ ReviewerLog = <<>>
          /\ HasCol(ret.df, reviewer_name) =>
                ReviewersOfResult \subseteq {EmptyStr}

\* match_dataframe has returned rows of a reviewer who has more rows in the
\* merged table than in the view, and has logged both numbers
C29_Witness ==
    /\ Gave("match_dataframe")
    /\ \E k \in DOMAIN logged :
          /\ logged[k].name # None
          /\ logged[k].num < logged[k].all

\* only_me_dataframe has returned a row and logged one message, the number
\* of its qualities
C29_OnlyMeWitness ==
    /\ Gave("only_me_dataframe")
    /\ ret.df.rows # <<>>
    /\ HasCol(ret.df, reviewer_name)
    /\ Len(logged) = 1

\* C23: when the construction of a GoogleSheetsClient returns, the
\* configuration it has loaded has every required key: credentials, scope,
\* and project_id under credentials; a file that lacks one gives KeyError
\* and no client object.
C23_ConstructionChecksKeys ==
    (ret.op = "GoogleSheetsClient" /\ ret.raised = "") =>
        /\ sheets_client # None
        /\ ClientKeysError(sheets_client[1].config) = None

\* the construction of a GoogleSheetsClient raises FileNotFoundError only
\* and leaves no instance behind when it raises
C23_OnlyFileNotFound ==
    (ret.op = "GoogleSheetsClient" /\ ret.raised # "") =>
        /\ ret.raised = "FileNotFoundError"
        /\ sheets_client = None

\* the calls of a trace that ask the libraries for an authorized client
AuthorizationCalls(calls) ==
    {k \in DOMAIN calls :
        calls[k].call \in {"from_json_keyfile_dict", "authorize"}}

\* a read of the property client, seen from the state before and the state
\* after: the libraries are asked only after check_keys has returned in
\* this read; a stored client is returned as it is, with no call at all;
\* without a stored client the read begins with check_keys; a read that
\* raises leaves the client unset, a read that returns has stored the
\* client it returns
ClientRead ==
    LET before == sheets_client[1]._client
        after == sheets_client'[1]._client
    IN /\ \A k \in AuthorizationCalls(trace') :
             /\ k > 1
             /\ trace'[1] = Called("check_keys", "", "", None)
       /\ before # None =>
             /\ trace' = <<>>
             /\ ret'.raised = ""
             /\ ret'.value = before[1]
       /\ before = None =>
             /\ trace' # <<>>
             /\ trace'[1].call = "check_keys"
       /\ ret'.raised # "" => after = None
       /\ ret'.raised = "" => (after # None /\ ret'.value = after[1])
       /\ ret'.raised = "KeyError" =>
             trace' = <<Called("check_keys", "", "KeyError", None)>>

\* C28: over any sequence of reads of GoogleSheetsClient.client,
\* authorization is attempted only after check_keys has passed in the same
\* read; once a client is stored it never changes, and every later read
\* returns it without checking or authorizing again; a read in which
\* check_keys raises KeyError leaves the stored client unset, and the next
\* read checks again.
C28_ClientAuthorizedOnce ==
    [][sheets_client # None =>
          /\ sheets_client' # None
          /\ sheets_client[1]._client # None =>
                sheets_client'[1]._client = sheets_client[1]._client
          /\ ret'.op = "client" => ClientRead]_vars

\* a read of the property client has returned the stored client without a
\* call to check_keys or to the libraries
C28_Witness ==
    /\ ret.op = "client"
    /\ ret.raised = ""
    /\ trace = <<>>
    /\ sheets_client # None
    /\ sheets_client[1]._client = Some(ret.value)

\* a read of the property client has raised the KeyError of check_keys and
\* no client is stored
C28_KeyErrorWitness ==
    /\ ret.op = "client"
    /\ ret.raised = "KeyError"
    /\ sheets_client # None
    /\ sheets_client[1]._client = None

\* the configuration of the downloader and what it lacks
ConfigOf(d) == d[1].config
LacksSheets(config) == config.sheets = None
LacksSelf(config) ==
    \A i \in DOMAIN config.sheets[1] : config.sheets[1][i].name # self_key
WithoutId(config) ==
    {i \in DOMAIN config.sheets[1] : ~config.sheets[1][i].sheet_id}

\* what check_keys has given for the configuration: the KeyError about
\* sheets, else the one about self, else the one about the sheet ids, which
\* names the sheets without one in the order of the configuration, else
\* nothing
KeysVerdict(outcome, config) ==
    IF LacksSheets(config)
    THEN /\ outcome.raised = "KeyError"
         /\ outcome.text = "Keys missing from config"
         /\ outcome.names = <<sheets_name>>
    ELSE IF LacksSelf(config)
    THEN /\ outcome.raised = "KeyError"
         /\ outcome.text = "'self' missing from config['sheets']"
    ELSE IF WithoutId(config) # {}
    THEN /\ outcome.raised = "KeyError"
         /\ outcome.text = "sheet_id is missing from"
         /\ Range(outcome.names) =
               {config.sheets[1][i].name : i \in WithoutId(config)}
    ELSE outcome.raised = ""

\* C24: QualitiesDownloader.check_keys raises KeyError exactly when the
\* configuration lacks sheets, or sheets lacks self, or a configured sheet
\* lacks sheet_id; the first of these checks that fails, in this order,
\* gives the message; otherwise it returns; in every case the
\* configuration and both caches are as before.
C24_CheckKeysVerdict ==
    [][(downloader # None /\ ret'.op = "check_keys") =>
          /\ downloader' = downloader
          /\ KeysVerdict(ret', ConfigOf(downloader))]_vars

\* check_keys has raised the KeyError about self on a configuration in
\* which a sheet lacks its sheet_id too
C24_Witness ==
    /\ downloader # None
    /\ ret.op = "check_keys"
    /\ ret.text = "'self' missing from config['sheets']"
    /\ WithoutId(ConfigOf(downloader)) # {}

\* check_keys has returned while a cache is filled
C24_ReturnWitness ==
    /\ downloader # None
    /\ ret.op = "check_keys"
    /\ ret.raised = ""
    /\ downloader[1]._self_dataframe # None

\* the cache of the downloader for the self sheet or for the others
CacheOf(d, which) ==
    IF which = "self" THEN d[1]._self_dataframe ELSE d[1]._others_dataframe

\* the calls of a trace that contact the sheets client
Downloads(calls) == {k \in DOMAIN calls : calls[k].call = "open_by_key"}

\* the configuration names a sheet to download for the cache
HasSheetFor(config, which) ==
    /\ ~LacksSheets(config)
    /\ \E i \in DOMAIN config.sheets[1] :
          (config.sheets[1][i].name = self_key) <=> (which = "self")

\* the rows of the downloaded tables of a trace, and those of them whose
\* comment, under either label, is not empty
RowsDownloaded(calls) ==
    {<<k, i>> \in (DOMAIN calls) \X (1..MaxSheetRows) :
        /\ calls[k].call = "open_by_key"
        /\ calls[k].value # None
        /\ i \in DOMAIN calls[k].value[1].rows}
ChosenDownloaded(calls) ==
    {p \in RowsDownloaded(calls) :
        LET t == calls[p[1]].value[1]
        IN StrLen(t.rows[p[2]][t.columns[2]]) > 0}

\* a read of the property, seen from the state before and the state after:
\* with a filled cache it returns the cached table and makes no call; with
\* an empty cache it begins with check_keys and contacts the sheets client
\* only after check_keys has returned; when it raises the downloader is as
\* before, when it returns the cache holds the table it returns
PropertyRead(which) ==
    LET before == CacheOf(downloader, which)
        after == CacheOf(downloader', which)
    IN /\ before # None =>
             /\ trace' = <<>>
             /\ ret'.raised = ""
             /\ ret'.df = before[1]
             /\ downloader' = downloader
       /\ before = None =>
             /\ trace' # <<>>
             /\ trace'[1].call = "check_keys"
             /\ \A k \in Downloads(trace') : k > 1 /\ trace'[1].raised = ""
       /\ ret'.raised # "" => downloader' = downloader
       /\ ret'.raised = "" => after = Some(ret'.df)

\* a refresh, seen from the state before and the state after: it never
\* calls check_keys; whatever the cache holds, it contacts the sheets
\* client when the configuration names a sheet to download; when it
\* returns, every download of the call has returned and the cache holds as
\* many rows as were downloaded, for the others those of non-empty
\* comment; when it raises the downloader is as before
Refresh(which) ==
    LET after == CacheOf(downloader', which)
    IN /\ \A k \in DOMAIN trace' : trace'[k].call = "open_by_key"
       /\ HasSheetFor(ConfigOf(downloader), which) => trace' # <<>>
       /\ ret'.raised # "" => downloader' = downloader
       /\ ret'.raised = "" =>
             /\ trace' # <<>>
             /\ \A k \in DOMAIN trace' : trace'[k].raised = ""
             /\ after # None
             /\ Len(after[1].rows) =
                   Cardinality(IF which = "self" THEN RowsDownloaded(trace')
                               ELSE ChosenDownloaded(trace'))

\* C27: over any sequence of reads and refreshes of a QualitiesDownloader,
\* the property self_dataframe (others_dataframe) contacts the sheets client
\* only when its cache is empty, and then only after check_keys has passed;
\* with a filled cache it returns the cached table without a call;
\* refresh_self_dataframe (refresh_others_dataframe) downloads whatever the
\* cache holds and stores what it has downloaded; when check_keys or the
\* download raises, the cache is left as it was, so an empty cache stays
\* empty and the next read tries again; no call touches the configuration
\* or the other cache.
C27_CachesFilledOnDemand ==
    [][downloader # None =>
          /\ downloader' # None
          /\ ConfigOf(downloader') = ConfigOf(downloader)
          /\ ret'.op = "self_dataframe" => PropertyRead("self")
          /\ ret'.op = "others_dataframe" => PropertyRead("others")
          /\ ret'.op = "refresh_self_dataframe" => Refresh("self")
          /\ ret'.op = "refresh_others_dataframe" => Refresh("others")
          /\ ret'.op \in {"self_dataframe", "refresh_self_dataframe"} =>
                CacheOf(downloader', "others") = CacheOf(downloader, "others")
          /\ ret'.op \in {"others_dataframe", "refresh_others_dataframe"} =>
                CacheOf(downloader', "self") = CacheOf(downloader, "self")]_vars

\* a read of the property self_dataframe has returned the cached table
\* without a call
C27_Witness ==
    /\ downloader # None
    /\ ret.op = "self_dataframe"
    /\ ret.raised = ""
    /\ trace = <<>>
    /\ downloader[1]._self_dataframe = Some(ret.df)
    /\ ret.df.rows # <<>>

\* a read of the property others_dataframe has passed check_keys, the
\* download has raised, and the cache is empty
C27_FailedDownloadWitness ==
    /\ downloader # None
    /\ ret.op = "others_dataframe"
    /\ ret.raised \notin {"", "KeyError"}
    /\ Len(trace) > 1
    /\ downloader[1]._others_dataframe = None

\* a refresh of the others has stored a table that lacks a downloaded row
C27_RefreshWitness ==
    /\ downloader # None
    /\ ret.op = "refresh_others_dataframe"
    /\ ret.raised = ""
    /\ downloader[1]._others_dataframe # None
    /\ RowsDownloaded(trace) # ChosenDownloaded(trace)

\* the sheets of the configuration other than self, in its order
OtherSheets(config) ==
    SelectSeq(config.sheets[1], LAMBDA sheet : sheet.name # self_key)

\* the k-th download of the call gave a table that has the comment column,
\* under its own label or by the renaming of the sheet
HasComments(config, calls, k) ==
    /\ calls[k].raised = ""
    /\ \/ calls[k].value[1].columns[2] = comment_name
       \/ OtherSheets(config)[k].rename

\* the rows of the k-th downloaded table, without those of empty comment
\* when drop is set, each with the title-cased name of the k-th sheet in
\* the reviewer column
TaggedRows(config, calls, k, drop) ==
    LET t == calls[k].value[1]
        label == t.columns[2]
        kept == SelectSeq(t.rows, LAMBDA r : ~drop \/ StrLen(r[label]) > 0)
    IN [i \in DOMAIN kept |->
          [c \in {quality_name, comment_name, reviewer_name} |->
              IF c = quality_name THEN kept[i][quality_name]
              ELSE IF c = comment_name THEN kept[i][label]
              ELSE <<"name", TitleCased(OtherSheets(config)[k].name)>>]]

RECURSIVE TaggedUpTo(_, _, _, _)
\* these rows for the first k downloads, in turn
TaggedUpTo(config, calls, k, drop) ==
    IF k = 0 THEN <<>>
    ELSE TaggedUpTo(config, calls, k - 1, drop)
            \o TaggedRows(config, calls, k, drop)

\* download_others has been called, every sheet other than self has been
\* downloaded and has the comment column
AllDownloaded ==
    /\ downloader # None
    /\ ret.op = "download_others"
    /\ ~LacksSheets(ConfigOf(downloader))
    /\ Len(trace) = Len(OtherSheets(ConfigOf(downloader)))
    /\ \A k \in DOMAIN trace : HasComments(ConfigOf(downloader), trace, k)

\* the call has returned the rows of the downloaded tables in the order of
\* the configuration, tagged, and without the rows of empty comment exactly
\* when remove_unchosen is set
ReturnedConcatenation ==
    /\ ret.raised = ""
    /\ ret.df.rows = TaggedUpTo(ConfigOf(downloader), trace, Len(trace),
                                ret.arg)

\* C25 as stated: download_others returns the concatenation, in the order
\* of the configuration, of the rows of every configured sheet except self,
\* each row with the title-cased sheet name in the reviewer column; with
\* remove_unchosen exactly the rows of empty comment are dropped, without
\* it none.
C25_ReturnsConcatenation == AllDownloaded => ReturnedConcatenation

\* C25 for configurations with a sheet other than self: the same
C25_ConcatenationOfOthers ==
    (AllDownloaded /\ trace # <<>>) => ReturnedConcatenation

\* download_others has returned the rows of other2 before those of other1
\* and has dropped a row
C25_Witness ==
    /\ AllDownloaded
    /\ Len(trace) = 2
    /\ trace[1].arg = "other2"
    /\ ret.raised = ""
    /\ ret.arg
    /\ Len(ret.df.rows) = 1
    /\ Cardinality(RowsDownloaded(trace)) = 2
====
